---- MODULE Spec2Model ----
(***************************************************************************)
(* The workflow orchestrator of x-post-replicator:                         *)
(* app/services/workflow_executor.py (WorkflowExecutor), with the records  *)
(* of app/schemas/workflow.py and the settings of app/config.py.           *)
(*                                                                         *)
(* One asyncio task per pipeline run.  A run is a coroutine; the actions   *)
(* below are its segments between the points where the event loop can get  *)
(* control.  The four units of work (_download_tweets_step, ...) contain   *)
(* only blocking calls (tweepy.Client, openai.OpenAI, SQLAlchemy sessions):*)
(* a unit never yields to the event loop, so it runs from its first to its *)
(* last statement in one piece while the clock advances.                   *)
(***************************************************************************)
EXTENDS Integers, Sequences, FiniteSets, TLC

(* ------------------------------ bounds -------------------------------- *)

\* The clock stops advancing here.
MaxTime == 3

\* The longest time one unit of work blocks.
MaxWork == 2

\* Where the clock stops when the routes are called around one run, and
\* around two runs.
MaxApiTime == 2
MaxRegistryTime == 1

\* The clock stops here when one run works on the rows of the tweets table.
MaxPipelineTime == 1

\* And here when two runs in two processes do: their steps take no time.
MaxRaceTime == 0

\* For the registry's clock a tick is an hour, and tick 0 is EpochHour
\* o'clock, so that midnight falls inside the clock's range.
EpochHour == 22
HoursPerDay == 24

\* max_age_hours of cleanup_old_workflows: the arguments tried, and the
\* default.
MaxAgeHours == {0, 1, 2}
DefaultMaxAgeHours == 24

\* The identifiers uuid4 hands out in the model (one run per identifier),
\* and the one a single run is checked with.
WorkflowIds == {"w1", "w2"}
OneWorkflow == {"w1"}

\* The account a run is given to scrape.
Target == "u"

\* WorkflowRequest.timeout as the executor receives it; 0 stands for the
\* falsy values (None, 0) that `timeout or ...` replaces by the setting.
RequestTimeouts == {0, 1}

\* Values the environment gives WORKFLOW_STEP_TIMEOUT / WORKFLOW_POSTING_TIMEOUT
\* (seconds, scaled down; 0 is a setting of "0").
StepTimeoutSettings == {0, 1}
PostingTimeoutSettings == {0, 2}

(* ---------------------------- schemas/workflow.py ---------------------- *)

\* Optional[...] fields default to None.
None == -1

PENDING == "pending"
RUNNING == "running"
COMPLETED == "completed"
FAILED == "failed"
TIMEOUT == "timeout"

WorkflowStepStatus == {PENDING, RUNNING, COMPLETED, FAILED, TIMEOUT}

Terminal == {COMPLETED, FAILED, TIMEOUT}

\* step.error: None, or a message.
NoError == [text |-> "None", seconds |-> 0]

\* step.result: None, or the dict the unit of work returned.
NoResult == "None"

WorkflowStep(name) ==
    [name |-> name, status |-> PENDING, start_time |-> None, end_time |-> None,
     duration |-> None, error |-> NoError, result |-> NoResult]

StepNames == <<"download_tweets", "process_and_classify", "polish_content", "post_tweets">>

NumSteps == Len(StepNames)

\* WorkflowRequest.count when the request leaves it out.
DefaultCount == 1

\* summary: the dict with the keys scrape_username and count, "None" and
\* None standing for a key the dict does not have.
Summary(name, count) == [scrape_username |-> name, count |-> count]

\* summary={}
EmptySummary == Summary("None", None)

WorkflowResponse(workflow_id, t) ==
    [workflow_id |-> workflow_id, status |-> PENDING,
     steps |-> [k \in 1..NumSteps |-> WorkflowStep(StepNames[k])],
     total_duration |-> None, summary |-> EmptySummary, created_at |-> t,
     completed_at |-> None]

(* ------------------------------- state --------------------------------- *)

VARIABLES
    now,          \* datetime.now()
    config,       \* the Settings instance
    workflows,    \* WorkflowExecutor.workflows: the identifiers it maps
    wf,           \* the WorkflowResponse object of each run
    pc,           \* where each run's coroutine stands
    idx,          \* the step the run is at (1..4)
    step_timeout, \* the run's local step_timeout
    work,         \* what each step's unit of work did, and when it ended
    excepted,     \* the run went through `except Exception` of the controller
    escaped,      \* an exception of a unit of work left the step executor
    task,         \* BackgroundTasks: the run each POST /workflow/execute added
    response,     \* what the last call of a route or of cleanup came back with
    scrape_username, \* the scrape_username argument of each run
    tweets,       \* the rows of the tweets table
    posted,       \* the calls of client.create_tweet, in order
    rewrite,      \* how the rewrite of each row's text went, if it was tried
    fetch,        \* the last call of fetch_user_tweets: its count, what it returned
    selected,     \* latest_tweet of each run's publish step, once it has read the rows
    runner        \* the workflow_runner.py process: its argv, and how it ended

vars == <<now, config, workflows, wf, pc, idx, step_timeout, work, excepted, escaped,
          task, response, scrape_username, tweets, posted, rewrite, fetch, selected, runner>>

\* The tweet_id values the table can hold.
TweetIds == {"t1", "t2", "o1"}

\* The tweet_id values of the rows saved for an account other than the target.
OtherTweetIds == {"o1"}

\* An account that is not the one a run is given.
Other == "v"

\* Tweet.created_at of row t, set by func.now() when the row is inserted.
CreatedAt(t) == tweets[t].created_at

\* A text nobody wrote: None, or the empty string.  Both are falsy.
NoText == [kind |-> "None", of |-> "None"]

EmptyText == [kind |-> "", of |-> ""]

\* Tweet.original_text of row t.
OriginalText(t) == [kind |-> "original", of |-> t]

\* `if text:`
Truthy(text) == text \notin {NoText, EmptyText}

\* No row with this tweet_id.
NoTweet ==
    [status |-> "absent", polished_text |-> NoText, created_at |-> None,
     posted_at |-> None]

\* The row crud.create_tweet inserts at time t: status "downloaded", no
\* polished_text.
InsertedTweet(t) ==
    [status |-> "downloaded", polished_text |-> NoText, created_at |-> t,
     posted_at |-> None]

\* A row inserted when the clock started.
DownloadedTweet == InsertedTweet(0)

\* workflow_runner.py has not been started.
NoRunner ==
    [state |-> "idle", argv |-> <<>>, called |-> FALSE, target_username |-> "",
     raised |-> "None", value |-> FALSE, workflow_id |-> "None", exit_code |-> None]

\* fetch_user_tweets has not been called.
NoFetch == [count |-> 0, tweet_ids |-> {}]

NoWork == [state |-> "not_started", finished_at |-> None, exc |-> "None", value |-> "None"]

\* BackgroundTasks holds nothing for an identifier, or the run that
\* add_task bound to it, with its timeout= argument.
NoTask == [state |-> "none", timeout |-> 0]

\* No call has come back yet.
NoDetail == [status_code |-> 0, text |-> "None"]

\* progress: completed_steps / total_steps, kept as the two integers.
Progress(completed_steps, total_steps) ==
    [completed_steps |-> completed_steps, total_steps |-> total_steps]

\* 0.0, and the progress of an answer that reports none.
NoProgress == Progress(0, 1)

NoResponse ==
    [op |-> "none", status_code |-> 0, detail |-> NoDetail, workflow_id |-> "None",
     status |-> "None", max_age_hours |-> None, summary |-> EmptySummary,
     current_step |-> "None", progress |-> NoProgress]

\* WorkflowExecutor.__init__ and the module-level objects, before any call.
Constructed ==
    /\ now = 0
    /\ workflows = {}
    /\ wf = [w \in WorkflowIds |-> WorkflowResponse(w, 0)]
    /\ pc = [w \in WorkflowIds |-> "idle"]
    /\ idx = [w \in WorkflowIds |-> 1]
    /\ step_timeout = [w \in WorkflowIds |-> 0]
    /\ work = [w \in WorkflowIds |-> [k \in 1..NumSteps |-> NoWork]]
    /\ excepted = [w \in WorkflowIds |-> FALSE]
    /\ escaped = [w \in WorkflowIds |-> FALSE]
    /\ task = [w \in WorkflowIds |-> NoTask]
    /\ response = NoResponse
    /\ scrape_username = [w \in WorkflowIds |-> ""]
    /\ tweets = [t \in TweetIds |-> NoTweet]
    /\ posted = <<>>
    /\ rewrite = [t \in TweetIds |-> "none"]
    /\ fetch = NoFetch
    /\ selected = [w \in WorkflowIds |-> "None"]
    /\ runner = NoRunner

\* The executor called directly: WORKFLOW_DEFAULT_USERNAME, which only the
\* routes read, is left at its default "".
Init ==
    /\ config \in [workflow_default_username : {""},
                   workflow_step_timeout : StepTimeoutSettings,
                   workflow_posting_timeout : PostingTimeoutSettings]
    /\ Constructed

(* ----------------------------- config.py -------------------------------- *)

\* Settings declares no workflow_demo_mode field, so reading
\* config.workflow_demo_mode raises AttributeError.
HasDemoModeSetting == FALSE

(* ------------------------- the units of work --------------------------- *)

AttributeErrorText == "'Settings' object has no attribute 'workflow_demo_mode'"

\* str(e) of what a unit of work raises.  _download_tweets_step reads
\* config.workflow_demo_mode before it fetches anything; the other units raise
\* what their collaborators (database session, OpenAI client, tweepy) raise.
UnitExceptions(k) ==
    CASE k = 1 -> IF HasDemoModeSetting
                  THEN {"Rate limit exceeded while fetching tweets"}
                  ELSE {AttributeErrorText}
      [] k = 2 -> {"database error"}
      [] k = 3 -> {"database error"}
      [] k = 4 -> {"Rate limit exceeded while publishing tweet. Please try again later."}

\* The dict a unit of work returns.
UnitValues(k) ==
    CASE k = 1 -> IF HasDemoModeSetting THEN {"downloaded_count"} ELSE {}
      [] k = 2 -> {"processed_count"}
      [] k = 3 -> {"polished_count"}
      [] k = 4 -> {"posted_count"}

\* What running step k's unit of work to its end can produce.
UnitOutcomes(k) ==
    {[state |-> "returned", exc |-> "None", value |-> v] : v \in UnitValues(k)}
    \cup {[state |-> "raised", exc |-> e, value |-> "None"] : e \in UnitExceptions(k)}

(* ----------------------- _execute_step_with_timeout -------------------- *)

\* Mutant: the subtraction the other way round.
DurationBackwards(start_time, end_time) ==
    IF start_time # None /\ end_time # None THEN start_time - end_time ELSE None

\* (end_time - start_time).total_seconds() under `if step.start_time and
\* step.end_time`: a datetime is always truthy, None is not.
Duration(start_time, end_time) ==
    IF start_time # None /\ end_time # None THEN end_time - start_time ELSE None

\* f"Step timed out after {timeout} seconds"
TimeoutMessage(timeout) == [text |-> "Step timed out after N seconds", seconds |-> timeout]

\* str(e)
Str(e) == [text |-> e, seconds |-> 0]

StepRunning(step, t) ==
    [step EXCEPT !.status = RUNNING, !.start_time = t]

StepCompleted(step, result, t) ==
    [step EXCEPT !.status = COMPLETED, !.result = result, !.end_time = t,
                 !.duration = Duration(step.start_time, t)]

\* Mutant: the timeout branch without end_time and duration.
StepTimedOutNoEnd(step, timeout, t) ==
    [step EXCEPT !.status = TIMEOUT, !.error = TimeoutMessage(timeout)]

StepTimedOut(step, timeout, t) ==
    [step EXCEPT !.status = TIMEOUT, !.error = TimeoutMessage(timeout), !.end_time = t,
                 !.duration = Duration(step.start_time, t)]

\* Mutant: the failure branch without step.error = str(e).
StepFailedNoError(step, e, t) ==
    [step EXCEPT !.status = FAILED, !.end_time = t,
                 !.duration = Duration(step.start_time, t)]

StepFailed(step, e, t) ==
    [step EXCEPT !.status = FAILED, !.error = Str(e), !.end_time = t,
                 !.duration = Duration(step.start_time, t)]

\* asyncio.wait_for(step_func(*args), timeout=timeout): with timeout <= 0 the
\* unit's task is cancelled before its first statement and TimeoutError is
\* raised; otherwise the timer is a callback of the event loop, which gets
\* control only once the blocking unit has ended, and the unit's own result
\* or exception comes back.
WaitForCancelsAtOnce(timeout) == timeout <= 0

\* Mutant: no `except Exception` branch, what the unit raises leaves the
\* executor with the step still running.
StepOutcomeReraise(step, wk, timeout, t) ==
    CASE wk.state = "returned"  -> [step |-> StepCompleted(step, wk.value, t), escapes |-> FALSE]
      [] wk.state = "cancelled" -> [step |-> StepTimedOut(step, timeout, t), escapes |-> FALSE]
      [] wk.state = "raised"    -> [step |-> step, escapes |-> TRUE]

\* The try / except asyncio.TimeoutError / except Exception of the executor:
\* the step as the branch taken leaves it, and whether the exception leaves
\* _execute_step_with_timeout (no branch lets it).
StepOutcome(step, wk, timeout, t) ==
    CASE wk.state = "returned"  -> [step |-> StepCompleted(step, wk.value, t), escapes |-> FALSE]
      [] wk.state = "cancelled" -> [step |-> StepTimedOut(step, timeout, t), escapes |-> FALSE]
      [] wk.state = "raised"    -> [step |-> StepFailed(step, wk.exc, t), escapes |-> FALSE]

(* ----------------------- execute_workflow_with_id ---------------------- *)

\* `timeout or config.workflow_step_timeout`
Or(a, b) == IF a # 0 THEN a ELSE b

\* Mutant: the first two calls given each other's step_index.
StepIndexSwapped(k) == IF k = 1 THEN 2 ELSE IF k = 2 THEN 1 ELSE k

\* Mutant: the second call given the first call's step_index.
StepIndexRepeated(k) == IF k = 2 THEN 1 ELSE k

\* The step_index argument of the k-th _execute_step_with_timeout call (0..3
\* in the source, 1..4 here).
StepIndex(k) == k

\* Mutant: one budget for all four calls.
TimeoutOfStepOnly(w, k) == step_timeout[w]

\* timeout= of the k-th call: step_timeout, and config.workflow_posting_timeout
\* for post_tweets.
TimeoutOf(w, k) ==
    IF k = NumSteps THEN config.workflow_posting_timeout ELSE step_timeout[w]

\* Mutant: retry-until-completed, the same call made again after a step that
\* is not completed.
AfterStepRetry(k, status) ==
    IF status # COMPLETED THEN [pc |-> "call", idx |-> k]
    ELSE IF k < NumSteps THEN [pc |-> "call", idx |-> k + 1] ELSE [pc |-> "final", idx |-> k]

\* Mutant: abort-on-failure, the remaining calls skipped after a step that is
\* not completed.
AfterStepAbort(k, status) ==
    IF k < NumSteps /\ status = COMPLETED
    THEN [pc |-> "call", idx |-> k + 1]
    ELSE [pc |-> "final", idx |-> k]

\* What follows the k-th call once it has returned: the next call, whatever
\* the step's status; after the fourth, the final status.
AfterStep(k, status) ==
    IF k < NumSteps THEN [pc |-> "call", idx |-> k + 1] ELSE [pc |-> "final", idx |-> k]

\* Mutant: any() in place of all().
AggregateStatusAny(steps) ==
    IF \E k \in 1..NumSteps : steps[k].status = COMPLETED THEN COMPLETED ELSE FAILED

\* all(step.status == COMPLETED for step in workflow.steps)
AggregateStatus(steps) ==
    IF \A k \in 1..NumSteps : steps[k].status = COMPLETED THEN COMPLETED ELSE FAILED

\* Mutant: total_duration taken from completed_at alone.
WorkflowFinalFromZero(w, t) ==
    [w EXCEPT !.status = AggregateStatus(w.steps), !.completed_at = t,
              !.total_duration = t]

\* "Update final status": status, completed_at, total_duration.
WorkflowFinal(w, t) ==
    [w EXCEPT !.status = AggregateStatus(w.steps), !.completed_at = t,
              !.total_duration = Duration(w.created_at, t)]

\* Mutant: the except branch without workflow.status = FAILED.
WorkflowExceptKeepsStatus(w, t) ==
    [w EXCEPT !.completed_at = t]

\* except Exception: status and completed_at.
WorkflowExcept(w, t) ==
    [w EXCEPT !.status = FAILED, !.completed_at = t]

(* ------------------------------ actions -------------------------------- *)

\* Mutant: identifiers that may repeat.
uuid4Repeats == WorkflowIds

\* uuid.uuid4(): an identifier no earlier call was given.
uuid4 == {w \in WorkflowIds : pc[w] = "idle" /\ task[w] = NoTask}

\* execute_workflow_with_id up to self.workflows[workflow_id] = workflow.
CreateWorkflow(w, timeout) ==
    /\ step_timeout' = [step_timeout EXCEPT ![w] = Or(timeout, config.workflow_step_timeout)]
    /\ wf' = [wf EXCEPT ![w] = WorkflowResponse(w, now)]
    /\ workflows' = workflows \cup {w}
    /\ pc' = [pc EXCEPT ![w] = "begin"]

\* execute_workflow: a new identifier, then execute_workflow_with_id.
execute_workflow_with_id(w, username, timeout) ==
    /\ w \in uuid4
    /\ scrape_username' = [scrape_username EXCEPT ![w] = username]
    /\ CreateWorkflow(w, timeout)
    /\ UNCHANGED <<now, config, idx, work, excepted, escaped, task, response, tweets, posted, rewrite, fetch, selected, runner>>

\* workflow.status = RUNNING
WorkflowRunning(w) ==
    /\ pc[w] = "begin"
    /\ wf' = [wf EXCEPT ![w].status = RUNNING]
    /\ pc' = [pc EXCEPT ![w] = "call"]
    /\ idx' = [idx EXCEPT ![w] = 1]
    /\ UNCHANGED <<now, config, workflows, step_timeout, work, excepted, escaped, task, response, scrape_username, tweets, posted, rewrite, fetch, selected, runner>>

\* _execute_step_with_timeout up to the await of wait_for.
StepStart(w) ==
    /\ pc[w] = "call"
    /\ wf' = [wf EXCEPT ![w].steps[StepIndex(idx[w])] = StepRunning(@, now)]
    /\ pc' = [pc EXCEPT ![w] = "wait"]
    /\ UNCHANGED <<now, config, workflows, idx, step_timeout, work, excepted, escaped, task, response, scrape_username, tweets, posted, rewrite, fetch, selected, runner>>

\* The unit of work runs, blocking the event loop for d seconds (the clock
\* going no further than limit).
UnitRunsTo(w, limit) ==
    /\ pc[w] = "wait"
    /\ ~WaitForCancelsAtOnce(TimeoutOf(w, idx[w]))
    /\ \E o \in UnitOutcomes(idx[w]), d \in 0..MaxWork :
        /\ now + d <= limit
        /\ now' = now + d
        /\ work' = [work EXCEPT ![w][idx[w]] =
                        [state |-> o.state, finished_at |-> now + d,
                         exc |-> o.exc, value |-> o.value]]
    /\ pc' = [pc EXCEPT ![w] = "resume"]
    /\ UNCHANGED <<config, workflows, wf, idx, step_timeout, excepted, escaped, task, response, scrape_username, tweets, posted, rewrite, fetch, selected, runner>>

UnitRuns(w) == UnitRunsTo(w, MaxTime)

\* wait_for with a timeout that is not positive: the unit never runs.
UnitCancelled(w) ==
    /\ pc[w] = "wait"
    /\ WaitForCancelsAtOnce(TimeoutOf(w, idx[w]))
    /\ work' = [work EXCEPT ![w][idx[w]] = [NoWork EXCEPT !.state = "cancelled"]]
    /\ pc' = [pc EXCEPT ![w] = "resume"]
    /\ UNCHANGED <<now, config, workflows, wf, idx, step_timeout, excepted, escaped, task, response, scrape_username, tweets, posted, rewrite, fetch, selected, runner>>

\* wait_for comes back: one of the three branches, then the controller's
\* next statement (its except branch, had the exception left the executor).
StepFinish(w) ==
    /\ pc[w] = "resume"
    /\ LET k == idx[w]
           i == StepIndex(k)
           out == StepOutcome(wf[w].steps[i], work[w][k], TimeoutOf(w, k), now)
           next == AfterStep(k, out.step.status)
           after == [wf[w] EXCEPT !.steps[i] = out.step]
       IN IF out.escapes
          THEN /\ wf' = [wf EXCEPT ![w] = WorkflowExcept(after, now)]
               /\ pc' = [pc EXCEPT ![w] = "done"]
               /\ escaped' = [escaped EXCEPT ![w] = TRUE]
               /\ excepted' = [excepted EXCEPT ![w] = TRUE]
               /\ UNCHANGED idx
          ELSE /\ wf' = [wf EXCEPT ![w] = after]
               /\ pc' = [pc EXCEPT ![w] = next.pc]
               /\ idx' = [idx EXCEPT ![w] = next.idx]
               /\ UNCHANGED <<escaped, excepted>>
    /\ UNCHANGED <<now, config, workflows, step_timeout, work, task, response, scrape_username, tweets, posted, rewrite, fetch, selected, runner>>

\* Mutant: the final status written and the controller left where it was,
\* to write it again.
WorkflowFinishAgain(w) ==
    /\ pc[w] = "final"
    /\ wf' = [wf EXCEPT ![w] = WorkflowFinal(@, now)]
    /\ UNCHANGED <<now, config, workflows, pc, idx, step_timeout, work, excepted, escaped, task, response, scrape_username, tweets, posted, rewrite, fetch, selected, runner>>

\* "Update final status" and return workflow.
WorkflowFinish(w) ==
    /\ pc[w] = "final"
    /\ wf' = [wf EXCEPT ![w] = WorkflowFinal(@, now)]
    /\ pc' = [pc EXCEPT ![w] = "done"]
    /\ UNCHANGED <<now, config, workflows, idx, step_timeout, work, excepted, escaped, task, response, scrape_username, tweets, posted, rewrite, fetch, selected, runner>>

\* An Exception raised by the controller's own statements inside its try
\* block (not by a unit of work, which the step executor absorbs): the except
\* branch runs, and the workflow is returned.
ControllerExcept(w) ==
    /\ pc[w] \in {"begin", "call", "final"}
    /\ wf' = [wf EXCEPT ![w] = WorkflowExcept(@, now)]
    /\ excepted' = [excepted EXCEPT ![w] = TRUE]
    /\ pc' = [pc EXCEPT ![w] = "done"]
    /\ UNCHANGED <<now, config, workflows, idx, step_timeout, work, escaped, task, response, scrape_username, tweets, posted, rewrite, fetch, selected, runner>>

(* ------------------- the units of work over the tweets table ---------- *)

\* Tweet.username of row t.
Username(t) == IF t \in OtherTweetIds THEN Other ELSE Target

\* Mutant: the query without its username filter.
get_tweets_by_usernameAny(username, status) ==
    {t \in TweetIds : /\ tweets[t].status # "absent"
                      /\ (status = "" \/ tweets[t].status = status)}

\* TweetCRUD.get_tweets_by_username(username, status=...); "" is no status.
get_tweets_by_username(username, status) ==
    {t \in TweetIds : /\ tweets[t].status # "absent"
                      /\ Username(t) = username
                      /\ (status = "" \/ tweets[t].status = status)}

\* What the text-generation service does with one request: it answers with
\* content, or client.chat.completions.create raises; "BrokenPipeError" is
\* print() raising inside polish_tweet_text, the service never being asked.
RewriteOutcomes == {"content", "RateLimitError", "BrokenPipeError"}

\* The outcomes in which the rewrite of a text failed.
RewriteFailures == RewriteOutcomes \ {"content"}

\* The text the service writes for row t (below 280 characters).
PolishedText(t) == [kind |-> "polished", of |-> t]

\* get_chat_completion: the stripped content, or every exception of the
\* call turned into a RuntimeError.
get_chat_completion(t, outcome) ==
    IF outcome = "content"
    THEN [state |-> "returned", text |-> PolishedText(t)]
    ELSE [state |-> "raised", text |-> [kind |-> "RuntimeError", of |-> "Rate limit exceeded"]]

\* f"[Error] {str(e)}"
ErrorText(e) == [kind |-> "[Error]", of |-> e.of]

\* generate_response: clean_response of the completion; a RuntimeError is
\* caught and comes back as a text that starts with "[Error]".
generate_response(t, outcome) ==
    LET completion == get_chat_completion(t, outcome)
    IN IF completion.state = "returned"
       THEN completion.text
       ELSE ErrorText(completion.text)

\* ContentPolisher.polish_tweet_text: what generate_response returned, or
\* None when anything in its try block raised.
polish_tweet_text(t, outcome) ==
    IF outcome = "BrokenPipeError" THEN NoText ELSE generate_response(t, outcome)

\* What the destination account's API does with client.create_tweet.
PublishOutcomes ==
    {"created", "TooManyRequests", "Forbidden", "Unauthorized", "BadRequest", "NoData"}

RateLimitText == "Rate limit exceeded while publishing tweet. Please try again later."

\* Mutant: the rate limit reported in the words of another refusal.
PublishExceptionTextForbidden(outcome) ==
    "403 Forbidden - You are not permitted to perform this action."

\* str(e) of the Exception _post_tweets_step raises for what tweepy raised.
PublishExceptionText(outcome) ==
    CASE outcome = "TooManyRequests" -> RateLimitText
      [] outcome = "Forbidden" ->
            "403 Forbidden - You are not permitted to perform this action."
      [] outcome = "Unauthorized" -> "401 Unauthorized - Check your API credentials."
      [] outcome = "BadRequest" -> "Bad Request - Invalid tweet content."
      [] outcome = "NoData" -> "No response data from Twitter API"

\* Mutant: a unit of work that counts one row more than it touched.
CountOneMore(key, n) == [key |-> key, count |-> n + 1]

\* The dict a unit of work returns, as the count it carries.
Count(key, n) == [key |-> key, count |-> n]

\* Mutant: the unit of work started although wait_for has cancelled it.
UnitBeginsCancelled(w, k) ==
    /\ pc[w] = "wait"
    /\ idx[w] = k

\* The unit of work of step k is awaited.
UnitBegins(w, k) ==
    /\ pc[w] = "wait"
    /\ idx[w] = k
    /\ ~WaitForCancelsAtOnce(TimeoutOf(w, k))

\* The unit of work returns or raises after blocking the event loop for d
\* seconds (the clock going no further than limit).
UnitEnds(w, state, exc, value, limit) ==
    /\ \E d \in 0..MaxWork :
        /\ now + d <= limit
        /\ now' = now + d
        /\ work' = [work EXCEPT ![w][idx[w]] =
                        [state |-> state, finished_at |-> now + d,
                         exc |-> exc, value |-> value]]
    /\ pc' = [pc EXCEPT ![w] = "resume"]

\* _download_tweets_step: config.workflow_demo_mode is read first.
download_tweets_step(w, limit) ==
    /\ UnitBegins(w, 1)
    /\ ~HasDemoModeSetting
    /\ UnitEnds(w, "raised", AttributeErrorText, "None", limit)
    /\ UNCHANGED <<config, workflows, wf, idx, step_timeout, excepted, escaped,
                   task, response, scrape_username, tweets, posted, rewrite, fetch, selected, runner>>

\* _process_and_classify_step: every "downloaded" row of the username
\* becomes "processed".
process_and_classify_step(w, limit) ==
    LET rows == get_tweets_by_username(scrape_username[w], "downloaded")
    IN /\ UnitBegins(w, 2)
       /\ tweets' = [t \in TweetIds |->
                        IF t \in rows THEN [tweets[t] EXCEPT !.status = "processed"]
                        ELSE tweets[t]]
       /\ UnitEnds(w, "returned", "None", Count("processed_count", Cardinality(rows)), limit)
       /\ UNCHANGED <<config, workflows, wf, idx, step_timeout, excepted, escaped,
                      task, response, scrape_username, posted, rewrite, fetch, selected, runner>>

\* What the polish step stores for row t: the rewritten text if it is
\* truthy, the original text otherwise.
StoredText(t, outcome) ==
    LET polished_text == polish_tweet_text(t, outcome)
    IN IF Truthy(polished_text) THEN polished_text ELSE OriginalText(t)

\* _polish_content_step: every "processed" row of the username that has no
\* polished_text gets one and becomes "polished".
polish_content_step(w, limit) ==
    LET rows == {t \in get_tweets_by_username(scrape_username[w], "processed") :
                    ~Truthy(tweets[t].polished_text)}
    IN /\ UnitBegins(w, 3)
       /\ \E outcome \in [rows -> RewriteOutcomes] :
            /\ tweets' = [t \in TweetIds |->
                            IF t \in rows
                            THEN [tweets[t] EXCEPT !.polished_text = StoredText(t, outcome[t]),
                                                   !.status = "polished"]
                            ELSE tweets[t]]
            /\ rewrite' = [t \in TweetIds |-> IF t \in rows THEN outcome[t] ELSE rewrite[t]]
       /\ UnitEnds(w, "returned", "None", Count("polished_count", Cardinality(rows)), limit)
       /\ UNCHANGED <<config, workflows, wf, idx, step_timeout, excepted, escaped,
                      task, response, scrape_username, posted, fetch, selected, runner>>

\* The rows _post_tweets_step chooses from.
polished_tweets(username) ==
    {t \in get_tweets_by_username(username, "") :
        Truthy(tweets[t].polished_text) /\ tweets[t].status \in {"polished", "downloaded"}}

\* Mutant: min() in place of max().
latest_tweetOldest(username) ==
    {t \in polished_tweets(username) :
        \A u \in polished_tweets(username) : CreatedAt(t) <= CreatedAt(u)}

\* max(polished_tweets, key=lambda t: t.created_at): a row no other row of
\* the list is newer than; among rows of equal created_at, the one the query
\* happened to return first.
latest_tweet(username) ==
    {t \in polished_tweets(username) :
        \A u \in polished_tweets(username) : CreatedAt(u) <= CreatedAt(t)}

\* latest_tweet.polished_text or latest_tweet.original_text
text_to_post(t) ==
    IF Truthy(tweets[t].polished_text) THEN tweets[t].polished_text ELSE OriginalText(t)

\* One call of client.create_tweet(text=...) by run w for row t, and what
\* the API did with it.
create_tweet(w, t, text, outcome) ==
    [workflow_id |-> w, tweet_id |-> t, text |-> text, outcome |-> outcome]

\* Mutant: the publish step without its configuration check.
AutoPostingDisabledNever == FALSE

\* `if not config.workflow_enable_auto_posting:`
AutoPostingDisabled == ~config.workflow_enable_auto_posting

\* crud.update_tweet(tweet_id, {"status": "published", "posted_at": datetime.now()})
MarkedPublished(t, at) ==
    [tweets EXCEPT ![t].status = "published", ![t].posted_at = at]

\* Mutant: the row marked published whatever create_tweet did.
AfterPublishAlways(t, outcome, at) == MarkedPublished(t, at)

\* The table after client.create_tweet: the row is marked only when the
\* response has data; every exception leaves the step before the update.
AfterPublish(t, outcome, at) ==
    IF outcome = "created" THEN MarkedPublished(t, at) ELSE tweets

\* _post_tweets_step: nothing to do when auto-posting is off or no row is
\* polished; otherwise the latest polished row is sent, and marked
\* "published" if the API created the tweet.
post_tweets_step(w, limit) ==
    /\ UnitBegins(w, NumSteps)
    /\ IF AutoPostingDisabled \/ polished_tweets(scrape_username[w]) = {}
       THEN /\ UnitEnds(w, "returned", "None", Count("posted_count", 0), limit)
            /\ UNCHANGED <<tweets, posted, selected>>
       ELSE \E t \in latest_tweet(scrape_username[w]), outcome \in PublishOutcomes :
                 /\ selected' = [selected EXCEPT ![w] = t]
                 /\ posted' = Append(posted, create_tweet(w, t, text_to_post(t), outcome))
                 /\ IF outcome = "created"
                    THEN UnitEnds(w, "returned", "None", Count("posted_count", 1), limit)
                    ELSE UnitEnds(w, "raised", PublishExceptionText(outcome), "None", limit)
                 /\ tweets' = AfterPublish(t, outcome, now')
    /\ UNCHANGED <<config, workflows, wf, idx, step_timeout, excepted, escaped,
                   task, response, scrape_username, rewrite, fetch, runner>>

\* Mutant: the chosen row is set aside for the run that chose it.
AfterSelectReserved(t) == [tweets EXCEPT ![t].status = "publishing"]

\* The table once a publish step has chosen row t: the step has only read.
AfterSelect(t) == tweets

\* _post_tweets_step up to text_to_post, as another process sharing the
\* table sees it: the rows are read and latest_tweet is chosen.
post_tweets_select(w, limit) ==
    /\ UnitBegins(w, NumSteps)
    /\ IF AutoPostingDisabled \/ polished_tweets(scrape_username[w]) = {}
       THEN /\ UnitEnds(w, "returned", "None", Count("posted_count", 0), limit)
            /\ UNCHANGED <<tweets, selected, runner>>
       ELSE /\ \E t \in latest_tweet(scrape_username[w]) :
                /\ selected' = [selected EXCEPT ![w] = t]
                /\ tweets' = AfterSelect(t)
            /\ pc' = [pc EXCEPT ![w] = "publish"]
            /\ UNCHANGED <<now, work>>
    /\ UNCHANGED <<config, workflows, wf, idx, step_timeout, excepted, escaped,
                   task, response, scrape_username, posted, rewrite, fetch, runner>>

\* _post_tweets_step from client.create_tweet on: the chosen row is sent,
\* and marked "published" if the API created the tweet.
post_tweets_publish(w, limit) ==
    /\ pc[w] = "publish"
    /\ LET t == selected[w]
       IN \E outcome \in PublishOutcomes :
            /\ posted' = Append(posted, create_tweet(w, t, text_to_post(t), outcome))
            /\ IF outcome = "created"
               THEN UnitEnds(w, "returned", "None", Count("posted_count", 1), limit)
               ELSE UnitEnds(w, "raised", PublishExceptionText(outcome), "None", limit)
            /\ tweets' = AfterPublish(t, outcome, now')
    /\ UNCHANGED <<config, workflows, wf, idx, step_timeout, excepted, escaped,
                   task, response, scrape_username, rewrite, fetch, selected, runner>>

(* --------------------------- routes/workflow.py ------------------------ *)

\* request.scrape_x_username and request.username: None, or a name.
Usernames == {"", Target}

\* Mutant: the request's own fields only, no fall-back to the setting.
ScrapeUsernameNoDefault(scrape_x_username, username) ==
    IF scrape_x_username # "" THEN scrape_x_username ELSE username

\* scrape_username: request.scrape_x_username, and if that is falsy
\* `request.username or config.workflow_default_username`.
ScrapeUsername(scrape_x_username, username) ==
    IF scrape_x_username # "" THEN scrape_x_username
    ELSE IF username # "" THEN username ELSE config.workflow_default_username

\* Mutant: the 400 raised only for None, which "" is not.
UsernameMissingNever(username) == FALSE

\* `if not scrape_username`
UsernameMissing(username) == username = ""

UsernameRequired == "Scrape username is required"
WorkflowNotFound == "Workflow not found"

\* HTTPException(status_code=..., detail=...)
HTTPException(status_code, text) == [status_code |-> status_code, text |-> text]

\* `except Exception as e: raise HTTPException(status_code=500, detail=str(e))`
\* around the whole body of a route: what the body raised, the
\* HTTPException of its own checks included, leaves the route as a 500 that
\* carries it as detail.
Reraised(op, e) ==
    [op |-> op, status_code |-> 500, detail |-> e, workflow_id |-> "None",
     status |-> "None", max_age_hours |-> None, summary |-> EmptySummary,
     current_step |-> "None", progress |-> NoProgress]

\* The WorkflowResponse POST /workflow/execute returns: status "running",
\* and a summary that names the target and the count.
Started(w, name) ==
    [op |-> "execute", status_code |-> 200, detail |-> NoDetail, workflow_id |-> w,
     status |-> RUNNING, max_age_hours |-> None, summary |-> Summary(name, DefaultCount),
     current_step |-> "None", progress |-> NoProgress]

\* POST /workflow/execute: the username check, a new identifier,
\* background_tasks.add_task(execute_workflow_with_id, ...), the response.
route_execute_workflow(w, scrape_x_username, username, timeout) ==
    LET name == ScrapeUsername(scrape_x_username, username)
    IN IF UsernameMissing(name)
       THEN /\ response' = Reraised("execute", HTTPException(400, UsernameRequired))
            /\ UNCHANGED <<now, config, workflows, wf, pc, idx, step_timeout, work,
                           excepted, escaped, task, scrape_username, tweets, posted, rewrite, fetch, selected, runner>>
       ELSE /\ w \in uuid4
            /\ task' = [task EXCEPT ![w] = [state |-> "added", timeout |-> timeout]]
            /\ scrape_username' = [scrape_username EXCEPT ![w] = name]
            /\ response' = Started(w, name)
            /\ UNCHANGED <<now, config, workflows, wf, pc, idx, step_timeout, work,
                           excepted, escaped, tweets, posted, rewrite, fetch, selected, runner>>

\* The background task starts, once the response has been sent:
\* execute_workflow_with_id with the arguments add_task bound.
BackgroundTask(w) ==
    /\ task[w].state = "added"
    /\ task' = [task EXCEPT ![w] = [state |-> "started", timeout |-> 0]]
    /\ CreateWorkflow(w, task[w].timeout)
    /\ UNCHANGED <<now, config, idx, work, excepted, escaped, response, scrape_username, tweets, posted, rewrite, fetch, selected, runner>>

\* POST /workflow/execute-sync: the username check, then
\* await workflow_executor.execute_workflow(...).
route_execute_workflow_sync(w, scrape_x_username, username, timeout) ==
    LET name == ScrapeUsername(scrape_x_username, username)
    IN IF UsernameMissing(name)
       THEN /\ response' = Reraised("execute_sync", HTTPException(400, UsernameRequired))
            /\ UNCHANGED <<now, config, workflows, wf, pc, idx, step_timeout, work,
                           excepted, escaped, task, scrape_username, tweets, posted, rewrite, fetch, selected, runner>>
       ELSE /\ w \in uuid4
            /\ scrape_username' = [scrape_username EXCEPT ![w] = name]
            /\ CreateWorkflow(w, timeout)
            /\ UNCHANGED <<now, config, idx, work, excepted, escaped, task, response, tweets, posted, rewrite, fetch, selected, runner>>

\* Mutant: the run's record handed out whether or not the registry holds it.
get_workflow_statusUnregistered(workflow_id) == {wf[workflow_id]}

\* WorkflowExecutor.get_workflow_status: self.workflows.get(workflow_id), the
\* record or None (here the set of at most one record).
get_workflow_status(workflow_id) ==
    IF workflow_id \in workflows THEN {wf[workflow_id]} ELSE {}

\* GET /workflow/status/{workflow_id}: the 404 of `if not workflow` is raised
\* inside the route's try block.
\* Mutant: the share of the steps that have not started.
progressPending(steps) ==
    LET pending_steps == Cardinality({k \in DOMAIN steps : steps[k].status = PENDING})
        total_steps == Len(steps)
    IN IF total_steps > 0 THEN Progress(pending_steps, total_steps) ELSE NoProgress

\* completed_steps / total_steps if total_steps > 0 else 0.0
progress(steps) ==
    LET completed_steps == Cardinality({k \in DOMAIN steps : steps[k].status = COMPLETED})
        total_steps == Len(steps)
    IN IF total_steps > 0 THEN Progress(completed_steps, total_steps) ELSE NoProgress

\* Mutant: the name of the first step that has not started.
current_stepPending(steps) ==
    LET pending == {k \in DOMAIN steps : steps[k].status = PENDING}
    IN IF pending = {} THEN "None"
       ELSE steps[CHOOSE k \in pending : \A j \in pending : k <= j].name

\* The name of the first step whose status is "running", else None.
current_step(steps) ==
    LET running == {k \in DOMAIN steps : steps[k].status = RUNNING}
    IN IF running = {} THEN "None"
       ELSE steps[CHOOSE k \in running : \A j \in running : k <= j].name

StatusResponse(workflow_id) ==
    LET found == get_workflow_status(workflow_id)
    IN IF found = {}
       THEN Reraised("status", HTTPException(404, WorkflowNotFound))
       ELSE LET workflow == CHOOSE r \in found : TRUE
            IN [op |-> "status", status_code |-> 200, detail |-> NoDetail,
                workflow_id |-> workflow.workflow_id, status |-> workflow.status,
                max_age_hours |-> None, summary |-> workflow.summary,
                current_step |-> current_step(workflow.steps),
                progress |-> progress(workflow.steps)]

route_get_workflow_status(workflow_id) ==
    /\ response' = StatusResponse(workflow_id)
    /\ UNCHANGED <<now, config, workflows, wf, pc, idx, step_timeout, work,
                   excepted, escaped, task, scrape_username, tweets, posted, rewrite, fetch, selected, runner>>

(* ---------------------------- routes/tweets.py ------------------------- *)

\* request.count of POST /tweets/download, and count of a run.
Counts == {1, 2}

\* The order of the target's timeline: the greater, the more recent.
Rank(t) == IF t = "t1" THEN 1 ELSE 2

\* The n most recent tweets of a timeline.
Newest(timeline, n) ==
    {t \in timeline : Cardinality({u \in timeline : Rank(u) > Rank(t)}) < n}

\* max_results = max(5, min(count, 100))
max_results(count) ==
    LET least == IF count < 100 THEN count ELSE 100
    IN IF least > 5 THEN least ELSE 5

\* TweetFetcher.fetch_user_tweets: every tweet get_users_tweets returned for
\* max_results, none of them dropped.
fetch_user_tweets(timeline, count) == Newest(timeline, max_results(count))

\* crud.tweet_exists
tweet_exists(t) == tweets[t].status # "absent"

\* The rows in the table after create_tweet for each of tweets_data that
\* does not exist yet.
Saved(tweets_data) ==
    [t \in TweetIds |->
        IF t \in tweets_data /\ ~tweet_exists(t) THEN InsertedTweet(now) ELSE tweets[t]]

NoTweetsFound == "No tweets found"

\* List[Tweet] of POST /tweets/download.
Downloaded ==
    [op |-> "download", status_code |-> 200, detail |-> NoDetail, workflow_id |-> "None",
     status |-> "None", max_age_hours |-> None, summary |-> EmptySummary,
     current_step |-> "None", progress |-> NoProgress]

\* POST /tweets/download: fetch_user_tweets, 404 (re-raised as 500) when it
\* returned nothing, a row for every tweet not yet in the table.
route_download_tweets(username, count) ==
    /\ \E timeline \in SUBSET {t \in TweetIds : Username(t) = username} :
        LET tweets_data == fetch_user_tweets(timeline, count)
        IN /\ fetch' = [count |-> count, tweet_ids |-> tweets_data]
           /\ IF tweets_data = {}
              THEN /\ response' = Reraised("download", HTTPException(404, NoTweetsFound))
                   /\ UNCHANGED tweets
              ELSE /\ response' = Downloaded
                   /\ tweets' = Saved(tweets_data)
    /\ UNCHANGED <<now, config, workflows, wf, pc, idx, step_timeout, work, excepted,
                   escaped, task, scrape_username, posted, rewrite, selected, runner>>

(* ------------------------ cleanup_old_workflows ------------------------ *)

\* datetime.now().hour
Hour(t) == (t + EpochHour) % HoursPerDay

\* datetime.replace(hour=h) raises ValueError("hour must be in 0..23") for
\* any other h.
ValidHour(h) == h \in 0..(HoursPerDay - 1)

HourMustBeInRange == "hour must be in 0..23"

\* t.replace(hour=h): the same day, minute and second at hour h.
Replace(t, h) == t + (h - Hour(t))

\* cutoff_time = datetime.now().replace(hour=datetime.now().hour - max_age_hours)
CutoffHour(max_age_hours) == Hour(now) - max_age_hours

\* workflows_to_remove
WorkflowsToRemove(cutoff_time) ==
    {w \in workflows : wf[w].created_at < cutoff_time}

\* What a call of cleanup_old_workflows came back with: nothing, or the
\* exception it raised (status_code 0: the executor's method has none).
CleanupReturned(op, status_code, e, max_age_hours) ==
    [op |-> op, status_code |-> status_code, detail |-> e, workflow_id |-> "None",
     status |-> "None", max_age_hours |-> max_age_hours, summary |-> EmptySummary,
     current_step |-> "None", progress |-> NoProgress]

\* The body of cleanup_old_workflows(max_age_hours), called by op, which
\* answers `returned` or, when the body raises, `raised`.
Cleanup(op, max_age_hours, returned, raised) ==
    IF ValidHour(CutoffHour(max_age_hours))
    THEN /\ workflows' = workflows \ WorkflowsToRemove(Replace(now, CutoffHour(max_age_hours)))
         /\ response' = CleanupReturned(op, returned, NoDetail, max_age_hours)
    ELSE /\ workflows' = workflows
         /\ response' = CleanupReturned(op, raised, HTTPException(0, HourMustBeInRange),
                                        max_age_hours)

cleanup_old_workflows(max_age_hours) ==
    /\ Cleanup("cleanup_old_workflows", max_age_hours, 0, 0)
    /\ UNCHANGED <<now, config, wf, pc, idx, step_timeout, work, excepted, escaped,
                   task, scrape_username, tweets, posted, rewrite, fetch, selected, runner>>

\* DELETE /workflow/cleanup: cleanup_old_workflows() with its default
\* max_age_hours; what it raises leaves the route as a 500.
route_cleanup_workflows ==
    /\ Cleanup("cleanup", DefaultMaxAgeHours, 200, 500)
    /\ UNCHANGED <<now, config, wf, pc, idx, step_timeout, work, excepted, escaped,
                   task, scrape_username, tweets, posted, rewrite, fetch, selected, runner>>

\* Time passes, up to limit.
TickTo(limit) ==
    /\ now < limit
    /\ now' = now + 1
    /\ UNCHANGED <<config, workflows, wf, pc, idx, step_timeout, work, excepted, escaped,
                   task, response, scrape_username, tweets, posted, rewrite, fetch, selected, runner>>

Tick == TickTo(MaxTime)

\* One run of the executor, called directly.
Next ==
    \/ \E w \in OneWorkflow, timeout \in RequestTimeouts :
          execute_workflow_with_id(w, Target, timeout)
    \/ \E w \in OneWorkflow : WorkflowRunning(w)
    \/ \E w \in OneWorkflow : StepStart(w)
    \/ \E w \in OneWorkflow : UnitRuns(w)
    \/ \E w \in OneWorkflow : UnitCancelled(w)
    \/ \E w \in OneWorkflow : StepFinish(w)
    \/ \E w \in OneWorkflow : WorkflowFinish(w)
    \/ \E w \in OneWorkflow : ControllerExcept(w)
    \/ Tick

Spec == Init /\ [][Next]_vars

\* The event loop runs every coroutine that is ready, and a unit of work that
\* has been started either runs to its end or is cancelled by wait_for.
RunFairness ==
    \A w \in WorkflowIds :
        /\ WF_vars(WorkflowRunning(w))
        /\ WF_vars(StepStart(w))
        /\ WF_vars(UnitRuns(w))
        /\ WF_vars(UnitCancelled(w))
        /\ WF_vars(StepFinish(w))
        /\ WF_vars(WorkflowFinish(w))

LiveSpec == Init /\ [][Next]_vars /\ RunFairness

(* ------------------- the routes over one run of the executor ---------- *)

\* The service with WORKFLOW_DEFAULT_USERNAME unset or set, the step timeout
\* positive and the posting timeout "0".
ApiInit ==
    /\ config \in [workflow_default_username : Usernames,
                   workflow_step_timeout : {1},
                   workflow_posting_timeout : {0}]
    /\ Constructed

ApiNext ==
    \/ \E w \in OneWorkflow, s \in Usernames, u \in Usernames, timeout \in RequestTimeouts :
          route_execute_workflow(w, s, u, timeout)
    \/ \E w \in OneWorkflow : BackgroundTask(w)
    \/ \E w \in OneWorkflow, s \in Usernames, u \in Usernames, timeout \in RequestTimeouts :
          route_execute_workflow_sync(w, s, u, timeout)
    \/ \E workflow_id \in OneWorkflow : route_get_workflow_status(workflow_id)
    \/ \E w \in OneWorkflow : WorkflowRunning(w)
    \/ \E w \in OneWorkflow : StepStart(w)
    \/ \E w \in OneWorkflow : UnitRunsTo(w, MaxApiTime)
    \/ \E w \in OneWorkflow : UnitCancelled(w)
    \/ \E w \in OneWorkflow : StepFinish(w)
    \/ \E w \in OneWorkflow : WorkflowFinish(w)
    \/ TickTo(MaxApiTime)

ApiSpec == ApiInit /\ [][ApiNext]_vars

(* ------------- the start route under every pair of settings ----------- *)

\* POST /workflow/execute and its background run, the two timeout settings
\* ranging over their values and the request's timeout given or left out.
BudgetNext ==
    \/ \E w \in OneWorkflow, timeout \in RequestTimeouts :
          route_execute_workflow(w, Target, Target, timeout)
    \/ \E w \in OneWorkflow : BackgroundTask(w)
    \/ \E w \in OneWorkflow : WorkflowRunning(w)
    \/ \E w \in OneWorkflow : StepStart(w)
    \/ \E w \in OneWorkflow : UnitRuns(w)
    \/ \E w \in OneWorkflow : UnitCancelled(w)
    \/ \E w \in OneWorkflow : StepFinish(w)
    \/ \E w \in OneWorkflow : WorkflowFinish(w)
    \/ Tick

BudgetSpec == Init /\ [][BudgetNext]_vars

(* ------------------- eviction around one run of the executor ----------- *)

EvictInit ==
    /\ config = [workflow_default_username |-> Target,
                 workflow_step_timeout |-> 1,
                 workflow_posting_timeout |-> 0]
    /\ Constructed

EvictNext ==
    \/ \E w \in OneWorkflow, timeout \in RequestTimeouts :
          execute_workflow_with_id(w, Target, timeout)
    \/ \E max_age_hours \in MaxAgeHours : cleanup_old_workflows(max_age_hours)
    \/ route_cleanup_workflows
    \/ \E workflow_id \in OneWorkflow : route_get_workflow_status(workflow_id)
    \/ \E w \in OneWorkflow : WorkflowRunning(w)
    \/ \E w \in OneWorkflow : StepStart(w)
    \/ \E w \in OneWorkflow : UnitRunsTo(w, MaxApiTime)
    \/ \E w \in OneWorkflow : UnitCancelled(w)
    \/ \E w \in OneWorkflow : StepFinish(w)
    \/ \E w \in OneWorkflow : WorkflowFinish(w)
    \/ TickTo(MaxApiTime)

EvictSpec == EvictInit /\ [][EvictNext]_vars

EvictLiveSpec == EvictInit /\ [][EvictNext]_vars /\ RunFairness

(* ------------------ two runs whose steps time out at once -------------- *)

\* Both timeouts "0": wait_for cancels every unit of work before it starts.
RegistryInit ==
    /\ config = [workflow_default_username |-> "",
                 workflow_step_timeout |-> 0,
                 workflow_posting_timeout |-> 0]
    /\ Constructed

RegistryNext ==
    \/ \E w \in WorkflowIds : route_execute_workflow(w, Target, "", 0)
    \/ \E w \in WorkflowIds : BackgroundTask(w)
    \/ \E w \in WorkflowIds : route_execute_workflow_sync(w, "", Target, 0)
    \/ cleanup_old_workflows(0)
    \/ \E w \in WorkflowIds : WorkflowRunning(w)
    \/ \E w \in WorkflowIds : StepStart(w)
    \/ \E w \in WorkflowIds : UnitCancelled(w)
    \/ \E w \in WorkflowIds : StepFinish(w)
    \/ \E w \in WorkflowIds : WorkflowFinish(w)
    \/ TickTo(MaxRegistryTime)

RegistrySpec == RegistryInit /\ [][RegistryNext]_vars

(* ------------------ one run over the rows of the target --------------- *)

\* The rows POST /tweets/download left for the target before the run.
PipelineRows == {NoTweet, DownloadedTweet}

\* A table that holds rows of the target only.
OnlyTarget(rows) == \A t \in OtherTweetIds : rows[t] = NoTweet

\* Positive timeouts, so that every unit of work runs.
PipelineInit ==
    /\ config \in [workflow_default_username : {Target},
                   workflow_step_timeout : {1},
                   workflow_posting_timeout : {2},
                   workflow_enable_auto_posting : BOOLEAN]
    /\ now = 0
    /\ workflows = {}
    /\ wf = [w \in WorkflowIds |-> WorkflowResponse(w, 0)]
    /\ pc = [w \in WorkflowIds |-> "idle"]
    /\ idx = [w \in WorkflowIds |-> 1]
    /\ step_timeout = [w \in WorkflowIds |-> 0]
    /\ work = [w \in WorkflowIds |-> [k \in 1..NumSteps |-> NoWork]]
    /\ excepted = [w \in WorkflowIds |-> FALSE]
    /\ escaped = [w \in WorkflowIds |-> FALSE]
    /\ task = [w \in WorkflowIds |-> NoTask]
    /\ response = NoResponse
    /\ scrape_username = [w \in WorkflowIds |-> ""]
    /\ tweets \in {rows \in [TweetIds -> PipelineRows] : OnlyTarget(rows)}
    /\ posted = <<>>
    /\ rewrite = [t \in TweetIds |-> "none"]
    /\ fetch = NoFetch
    /\ selected = [w \in WorkflowIds |-> "None"]
    /\ runner = NoRunner

\* The clock moves while a unit of work blocks; the download route is called
\* at any point between the steps.
PipelineNext ==
    \/ \E w \in OneWorkflow :
        \/ execute_workflow_with_id(w, Target, config.workflow_step_timeout)
        \/ WorkflowRunning(w)
        \/ StepStart(w)
        \/ download_tweets_step(w, MaxPipelineTime)
        \/ process_and_classify_step(w, MaxPipelineTime)
        \/ polish_content_step(w, MaxPipelineTime)
        \/ post_tweets_step(w, MaxPipelineTime)
        \/ StepFinish(w)
        \/ WorkflowFinish(w)
    \/ \E count \in Counts : route_download_tweets(Target, count)

PipelineSpec == PipelineInit /\ [][PipelineNext]_vars

(* ------- two runs for one target, each in a process of its own -------- *)

\* A row an earlier run rewrote and could not publish.
PolishedTweet(t) ==
    [status |-> "polished", polished_text |-> PolishedText(t), created_at |-> 0,
     posted_at |-> None]

\* Two server processes over one database_url, a run in each: a unit of
\* work blocks the event loop of its own process only.
RaceInit ==
    /\ config = [workflow_default_username |-> Target,
                 workflow_step_timeout |-> 1,
                 workflow_posting_timeout |-> 2,
                 workflow_enable_auto_posting |-> TRUE]
    /\ now = 0
    /\ workflows = {}
    /\ wf = [w \in WorkflowIds |-> WorkflowResponse(w, 0)]
    /\ pc = [w \in WorkflowIds |-> "idle"]
    /\ idx = [w \in WorkflowIds |-> 1]
    /\ step_timeout = [w \in WorkflowIds |-> 0]
    /\ work = [w \in WorkflowIds |-> [k \in 1..NumSteps |-> NoWork]]
    /\ excepted = [w \in WorkflowIds |-> FALSE]
    /\ escaped = [w \in WorkflowIds |-> FALSE]
    /\ task = [w \in WorkflowIds |-> NoTask]
    /\ response = NoResponse
    /\ scrape_username = [w \in WorkflowIds |-> ""]
    /\ tweets \in {rows \in [TweetIds -> {NoTweet} \cup {PolishedTweet(t) : t \in TweetIds}] :
                    /\ \A t \in TweetIds : rows[t] \in {NoTweet, PolishedTweet(t)}
                    /\ OnlyTarget(rows)}
    /\ posted = <<>>
    /\ rewrite = [t \in TweetIds |-> "none"]
    /\ fetch = NoFetch
    /\ selected = [w \in WorkflowIds |-> "None"]
    /\ runner = NoRunner

RaceNext ==
    \E w \in WorkflowIds :
        \/ execute_workflow_with_id(w, Target, config.workflow_step_timeout)
        \/ WorkflowRunning(w)
        \/ StepStart(w)
        \/ download_tweets_step(w, MaxRaceTime)
        \/ process_and_classify_step(w, MaxRaceTime)
        \/ polish_content_step(w, MaxRaceTime)
        \/ post_tweets_select(w, MaxRaceTime)
        \/ post_tweets_publish(w, MaxRaceTime)
        \/ StepFinish(w)
        \/ WorkflowFinish(w)

RaceSpec == RaceInit /\ [][RaceNext]_vars

(* ------------- the tweets table under every pair of timeouts ----------- *)

\* The run over the table with WORKFLOW_STEP_TIMEOUT and
\* WORKFLOW_POSTING_TIMEOUT ranging over their values: wait_for cancels a
\* unit of work whose timeout is not positive, and runs the others.
DeadlineInit ==
    /\ config \in [workflow_default_username : {Target},
                   workflow_step_timeout : StepTimeoutSettings,
                   workflow_posting_timeout : PostingTimeoutSettings,
                   workflow_enable_auto_posting : {TRUE}]
    /\ tweets \in {rows \in [TweetIds -> PipelineRows \cup {PolishedTweet(t) : t \in TweetIds}] :
                    /\ \A t \in TweetIds : rows[t] \in PipelineRows \cup {PolishedTweet(t)}
                    /\ OnlyTarget(rows)}
    /\ now = 0
    /\ workflows = {}
    /\ wf = [w \in WorkflowIds |-> WorkflowResponse(w, 0)]
    /\ pc = [w \in WorkflowIds |-> "idle"]
    /\ idx = [w \in WorkflowIds |-> 1]
    /\ step_timeout = [w \in WorkflowIds |-> 0]
    /\ work = [w \in WorkflowIds |-> [k \in 1..NumSteps |-> NoWork]]
    /\ excepted = [w \in WorkflowIds |-> FALSE]
    /\ escaped = [w \in WorkflowIds |-> FALSE]
    /\ task = [w \in WorkflowIds |-> NoTask]
    /\ response = NoResponse
    /\ scrape_username = [w \in WorkflowIds |-> ""]
    /\ posted = <<>>
    /\ rewrite = [t \in TweetIds |-> "none"]
    /\ fetch = NoFetch
    /\ selected = [w \in WorkflowIds |-> "None"]
    /\ runner = NoRunner

DeadlineNext ==
    \E w \in OneWorkflow :
        \/ \E timeout \in RequestTimeouts : execute_workflow_with_id(w, Target, timeout)
        \/ WorkflowRunning(w)
        \/ StepStart(w)
        \/ download_tweets_step(w, MaxPipelineTime)
        \/ process_and_classify_step(w, MaxPipelineTime)
        \/ polish_content_step(w, MaxPipelineTime)
        \/ post_tweets_step(w, MaxPipelineTime)
        \/ UnitCancelled(w)
        \/ StepFinish(w)
        \/ WorkflowFinish(w)

DeadlineSpec == DeadlineInit /\ [][DeadlineNext]_vars

(* --------------------------- workflow_runner.py ------------------------ *)

\* The longest command line tried: [username] [count] [tweet_type].
MaxArgs == 3

\* The words of a command line: no account name, the target's, a number,
\* and a word that is neither.
ArgTokens == {"", Target, "1", "x"}

\* sys.argv[1:], up to MaxArgs words.
CommandLines == UNION {[1..n -> ArgTokens] : n \in 0..MaxArgs}

\* int(word) returns; otherwise it raises ValueError.
IsInt(word) == word = "1"

\* The parameters of WorkflowExecutor.execute_workflow, and those of them
\* that have no default.
Parameters == {"scrape_username", "count", "tweet_type", "timeout"}

Required == {"scrape_username"}

\* The keywords run_workflow passes to execute_workflow.
RunnerKeywords == {"username", "count", "tweet_type", "timeout"}

\* Python binds a call's keywords to the parameters, or raises TypeError
\* (an unexpected keyword argument, a missing required argument).
Binds(keywords) == keywords \subseteq Parameters /\ Required \subseteq keywords

\* Mutant: `except Exception` of run_workflow answering True.
ExceptReturnsTrue == TRUE

\* `except Exception as e: ... return False`
ExceptReturns == FALSE

\* The process ended before run_workflow was called: sys.exit(1).
Exited(argv) == [NoRunner EXCEPT !.state = "exited", !.argv = argv, !.exit_code = 1]

\* run_workflow returned value: sys.exit(0 if success else 1).
Returned(argv, target_username, raised, value) ==
    [state |-> "exited", argv |-> argv, called |-> TRUE,
     target_username |-> target_username, raised |-> raised, value |-> value,
     workflow_id |-> "None", exit_code |-> IF value THEN 0 ELSE 1]

\* run_workflow is suspended in `await workflow_executor.execute_workflow(...)`.
Awaiting(argv, target_username, w) ==
    [state |-> "awaiting", argv |-> argv, called |-> TRUE,
     target_username |-> target_username, raised |-> "None", value |-> FALSE,
     workflow_id |-> w, exit_code |-> None]

\* main(): the command line is parsed, run_workflow(username, count,
\* tweet_type) is run to its end and the process exits.  run_workflow
\* resolves the username, calls execute_workflow with its keywords and
\* answers workflow.status == "completed"; whatever raises inside it is
\* caught and answered by the except branch.
main(argv) ==
    /\ runner.state = "idle"
    /\ LET username == IF Len(argv) > 0 THEN argv[1] ELSE ""
           target_username == IF username # "" THEN username
                              ELSE config.workflow_default_username
       IN IF \E i \in {2, 3} : i <= Len(argv) /\ ~IsInt(argv[i])
          THEN /\ runner' = Exited(argv)
               /\ UNCHANGED <<workflows, wf, pc, step_timeout, scrape_username>>
          ELSE IF target_username = ""
          THEN /\ runner' = Returned(argv, target_username, "None", FALSE)
               /\ UNCHANGED <<workflows, wf, pc, step_timeout, scrape_username>>
          ELSE IF ~Binds(RunnerKeywords)
          THEN /\ runner' = Returned(argv, target_username, "TypeError", ExceptReturns)
               /\ UNCHANGED <<workflows, wf, pc, step_timeout, scrape_username>>
          ELSE \E w \in uuid4 :
                 /\ runner' = Awaiting(argv, target_username, w)
                 /\ scrape_username' = [scrape_username EXCEPT ![w] = target_username]
                 /\ CreateWorkflow(w, config.workflow_step_timeout)
    /\ UNCHANGED <<now, config, idx, work, excepted, escaped, task, response,
                   tweets, posted, rewrite, fetch, selected>>

\* The runner started by cron with the default account unset or set.
RunnerInit ==
    /\ config \in [workflow_default_username : Usernames,
                   workflow_step_timeout : {1},
                   workflow_posting_timeout : {2},
                   workflow_enable_auto_posting : {TRUE}]
    /\ Constructed

RunnerNext == \E argv \in CommandLines : main(argv)

RunnerSpec == RunnerInit /\ [][RunnerNext]_vars

(* ------------- one run over a table that two accounts share ------------ *)

\* A row the classify step, or POST /tweets/{tweet_id}/polish, left at
\* "processed": without a polished_text, or with the one the route wrote.
ProcessedTweet == [DownloadedTweet EXCEPT !.status = "processed"]

ProcessedTweetWithText(t) == [ProcessedTweet EXCEPT !.polished_text = PolishedText(t)]

\* A row an earlier run published.
PublishedTweet(t) == [PolishedTweet(t) EXCEPT !.status = "published", !.posted_at = 0]

\* The rows earlier runs and the tweet routes can have left of tweet t.
OwnerRows(t) ==
    {NoTweet, DownloadedTweet, ProcessedTweet, ProcessedTweetWithText(t),
     PolishedTweet(t), PublishedTweet(t)}

\* The table holds rows of the target and a row of another account, at
\* any stage; timeouts are positive, so that every unit of work runs.
OwnerInit ==
    /\ config = [workflow_default_username |-> Target,
                 workflow_step_timeout |-> 1,
                 workflow_posting_timeout |-> 2,
                 workflow_enable_auto_posting |-> TRUE]
    /\ tweets \in {rows \in [TweetIds -> UNION {OwnerRows(t) : t \in TweetIds}] :
                    /\ \A t \in TweetIds : rows[t] \in OwnerRows(t)
                    /\ \A t \in OtherTweetIds : rows[t] # NoTweet}
    /\ now = 0
    /\ workflows = {}
    /\ wf = [w \in WorkflowIds |-> WorkflowResponse(w, 0)]
    /\ pc = [w \in WorkflowIds |-> "idle"]
    /\ idx = [w \in WorkflowIds |-> 1]
    /\ step_timeout = [w \in WorkflowIds |-> 0]
    /\ work = [w \in WorkflowIds |-> [k \in 1..NumSteps |-> NoWork]]
    /\ excepted = [w \in WorkflowIds |-> FALSE]
    /\ escaped = [w \in WorkflowIds |-> FALSE]
    /\ task = [w \in WorkflowIds |-> NoTask]
    /\ response = NoResponse
    /\ scrape_username = [w \in WorkflowIds |-> ""]
    /\ posted = <<>>
    /\ rewrite = [t \in TweetIds |-> "none"]
    /\ fetch = NoFetch
    /\ selected = [w \in WorkflowIds |-> "None"]
    /\ runner = NoRunner

OwnerNext ==
    \E w \in OneWorkflow :
        \/ execute_workflow_with_id(w, Target, config.workflow_step_timeout)
        \/ WorkflowRunning(w)
        \/ StepStart(w)
        \/ download_tweets_step(w, MaxPipelineTime)
        \/ process_and_classify_step(w, MaxPipelineTime)
        \/ polish_content_step(w, MaxPipelineTime)
        \/ post_tweets_step(w, MaxPipelineTime)
        \/ StepFinish(w)
        \/ WorkflowFinish(w)

OwnerSpec == OwnerInit /\ [][OwnerNext]_vars

(* ------------------------------ claims --------------------------------- *)

Created == {w \in WorkflowIds : pc[w] # "idle"}

Steps(w) == wf[w].steps

AllAttempted(w) == \A k \in 1..NumSteps : Steps(w)[k].status \in Terminal

AllCompleted(w) == \A k \in 1..NumSteps : Steps(w)[k].status = COMPLETED

\* C1: once all four steps of a run have been attempted and the run has
\* returned, the pipeline status is completed if and only if every step is
\* completed and is failed otherwise; the pipeline status is never timeout.
C1_AggregateStatus ==
    \A w \in Created :
        /\ wf[w].status # TIMEOUT
        /\ (pc[w] = "done" /\ AllAttempted(w)) =>
              /\ wf[w].status \in {COMPLETED, FAILED}
              /\ wf[w].status = COMPLETED <=> AllCompleted(w)
              /\ wf[w].status = FAILED <=> ~AllCompleted(w)

\* A returned run whose steps ended failed, completed, completed, timeout.
C1_Witness ==
    \E w \in Created :
        /\ pc[w] = "done" /\ ~excepted[w] /\ AllAttempted(w)
        /\ wf[w].status = FAILED
        /\ Steps(w)[1].status = FAILED
        /\ Steps(w)[2].status = COMPLETED
        /\ Steps(w)[3].status = COMPLETED
        /\ Steps(w)[4].status = TIMEOUT

\* C2: continue-on-failure.  A step that ended failed or timeout never keeps
\* the following step from being called: that step is the one about to be
\* called, is running or is terminal, unless the controller's own except
\* branch ended the run; and a run that returned without entering that
\* branch has attempted all four steps.
C2_ContinueOnFailure ==
    \A w \in Created :
        /\ \A k \in 1..(NumSteps - 1) :
              (Steps(w)[k].status \in {FAILED, TIMEOUT} /\ ~excepted[w]) =>
                  \/ pc[w] = "call" /\ idx[w] = k + 1 /\ Steps(w)[k + 1].status = PENDING
                  \/ Steps(w)[k + 1].status = RUNNING
                  \/ Steps(w)[k + 1].status \in Terminal
        /\ (pc[w] = "done" /\ ~excepted[w]) => AllAttempted(w)

\* download, classify and polish timed out, publish failed after them, and
\* the run returned.
C2_Witness ==
    \E w \in Created :
        /\ pc[w] = "done" /\ ~excepted[w]
        /\ \A k \in 1..(NumSteps - 1) : Steps(w)[k].status = TIMEOUT
        /\ Steps(w)[NumSteps].status = FAILED
        /\ Steps(w)[NumSteps].start_time # None

\* C3: the steps start in the order download, classify, polish, publish: a
\* step has left pending only if the step before it is terminal, and it
\* started no earlier than that step ended.
C3_FixedOrder ==
    \A w \in Created : \A k \in 1..(NumSteps - 1) :
        Steps(w)[k + 1].status # PENDING =>
            /\ Steps(w)[k].status \in Terminal
            /\ Steps(w)[k].end_time # None
            /\ Steps(w)[k].start_time <= Steps(w)[k].end_time
            /\ Steps(w)[k].end_time <= Steps(w)[k + 1].start_time

\* publish is running, after the three steps before it ended at different
\* times.
C3_Witness ==
    \E w \in Created :
        /\ Steps(w)[4].status = RUNNING
        /\ Steps(w)[1].end_time < Steps(w)[2].end_time
        /\ Steps(w)[2].end_time < Steps(w)[3].end_time

StepTransitionOk(old, new) ==
    \/ new = old
    \/ old.status = PENDING /\ new.status = RUNNING
    \/ old.status = RUNNING /\ new.status \in Terminal

\* C4: every step record starts pending, goes pending -> running -> one of
\* completed, failed, timeout, enters running once, and is never changed
\* again once it is terminal.
C4_StepStateMachine ==
    /\ [](\A w \in WorkflowIds : pc[w] \in {"idle", "begin"} =>
              \A k \in 1..NumSteps : Steps(w)[k].status = PENDING)
    /\ [][\A w \in WorkflowIds : pc[w] # "idle" =>
              \A k \in 1..NumSteps : StepTransitionOk(Steps(w)[k], Steps(w)[k]')]_vars

\* All four steps terminal, each by one of the three ways.
C4_Witness ==
    \E w \in Created :
        /\ AllAttempted(w)
        /\ {Steps(w)[k].status : k \in 1..NumSteps} = Terminal

\* The instant step k's deadline elapses.
DeadlineOf(w, k) == Steps(w)[k].start_time + TimeoutOf(w, k)

\* Step k's deadline elapsed before its unit of work had finished.
DeadlineElapsedFirst(w, k) ==
    \/ work[w][k].state = "cancelled"
    \/ work[w][k].state \in {"returned", "raised"} /\ work[w][k].finished_at > DeadlineOf(w, k)

\* C5: a step whose deadline elapsed before its unit of work had finished ends
\* timeout, with an error naming the deadline; a step ends completed only if
\* its unit of work returned a value before the deadline.
C5_DeadlineMeansTimeout ==
    \A w \in Created : \A k \in 1..NumSteps :
        Steps(w)[k].status \in Terminal =>
            /\ DeadlineElapsedFirst(w, k) =>
                  /\ Steps(w)[k].status = TIMEOUT
                  /\ Steps(w)[k].error = TimeoutMessage(TimeoutOf(w, k))
            /\ Steps(w)[k].status = COMPLETED =>
                  /\ work[w][k].state = "returned"
                  /\ work[w][k].finished_at <= DeadlineOf(w, k)

\* Step k's executor call has returned to the controller.
CallReturned(w, k) ==
    /\ work[w][k].state # "not_started"
    /\ ~(pc[w] = "resume" /\ idx[w] = k)

\* C6: what a unit of work raises is absorbed by the step executor: the step
\* ends failed with str(e) as its error and no result, and no exception of a
\* unit of work ever reaches the controller, so the run goes on and returns
\* its record.
C6_FailureAbsorbed ==
    \A w \in Created :
        /\ ~escaped[w]
        /\ \A k \in 1..NumSteps :
              (work[w][k].state = "raised" /\ CallReturned(w, k)) =>
                  /\ Steps(w)[k].status = FAILED
                  /\ Steps(w)[k].error = Str(work[w][k].exc)
                  /\ Steps(w)[k].result = NoResult
                  /\ Steps(w)[k].end_time # None

\* Every unit of work that ran raised, and the run returned by its final
\* status.
C6_Witness ==
    \E w \in Created :
        /\ pc[w] = "done" /\ ~excepted[w]
        /\ \A k \in 1..NumSteps : work[w][k].state = "raised"
        /\ wf[w].status = FAILED

\* C7: for every step record, error is set exactly when the status is failed
\* or timeout, result is set exactly when the status is completed, and the
\* two are never both set.
C7_ErrorResultInvariant ==
    \A w \in Created : \A k \in 1..NumSteps :
        /\ Steps(w)[k].error # NoError <=> Steps(w)[k].status \in {FAILED, TIMEOUT}
        /\ Steps(w)[k].result # NoResult <=> Steps(w)[k].status = COMPLETED
        /\ ~(Steps(w)[k].error # NoError /\ Steps(w)[k].result # NoResult)

\* A failed step, a completed step and a timed-out step in one record.
C7_Witness ==
    \E w \in Created :
        /\ Steps(w)[1].status = FAILED /\ Steps(w)[1].error = Str(AttributeErrorText)
        /\ Steps(w)[2].status = COMPLETED /\ Steps(w)[2].result = "processed_count"
        /\ Steps(w)[4].status = TIMEOUT /\ Steps(w)[4].error = TimeoutMessage(0)

PipelineTerminal(w) == wf[w].status \in {COMPLETED, FAILED}

StepDone(step) ==
    /\ step.status \in Terminal
    /\ step.end_time # None
    /\ step.duration # None

WrittenOnce(old, new) == old # None => new = old

\* completed_at and total_duration are unset while the status is pending or
\* running, and each is written at most once.
CompletionWrittenOnce ==
    /\ [](\A w \in Created : ~PipelineTerminal(w) =>
              wf[w].completed_at = None /\ wf[w].total_duration = None)
    /\ [][\A w \in WorkflowIds : pc[w] # "idle" =>
              /\ WrittenOnce(wf[w].completed_at, wf[w].completed_at')
              /\ WrittenOnce(wf[w].total_duration, wf[w].total_duration')]_vars

\* C9 as stated: whenever the pipeline status is terminal, completed_at and
\* total_duration are both set and total_duration = completed_at -
\* created_at; while pending or running both are unset; each is written at
\* most once.
C9_CompletionFields ==
    /\ [](\A w \in Created : PipelineTerminal(w) =>
              /\ wf[w].completed_at # None
              /\ wf[w].total_duration # None
              /\ wf[w].total_duration = wf[w].completed_at - wf[w].created_at)
    /\ CompletionWrittenOnce

\* C9 amended: whenever the pipeline status is terminal completed_at is set;
\* total_duration is set, to completed_at - created_at, when the final-status
\* rule set the status (the except branch writes completed_at only); while
\* pending or running both are unset; each is written at most once.
C9_CompletionFieldsFinalStatus ==
    /\ [](\A w \in Created : PipelineTerminal(w) =>
              /\ wf[w].completed_at # None
              /\ wf[w].completed_at >= wf[w].created_at
              /\ ~excepted[w] =>
                    /\ wf[w].total_duration # None
                    /\ wf[w].total_duration = wf[w].completed_at - wf[w].created_at)
    /\ CompletionWrittenOnce

\* A run created after time 0 that returned by its final status later on.
C9_Witness ==
    \E w \in Created :
        /\ pc[w] = "done" /\ ~excepted[w]
        /\ wf[w].created_at > 0
        /\ wf[w].total_duration > 0

\* C10: when an exception leaves the controller's sequencing logic, the
\* except branch forces the pipeline status to failed and sets completed_at;
\* a run that has returned never leaves its record pending or running.
C10_ControllerExcept ==
    \A w \in Created :
        /\ excepted[w] =>
              /\ pc[w] = "done"
              /\ wf[w].status = FAILED
              /\ wf[w].completed_at # None
        /\ pc[w] = "done" => wf[w].status \in {COMPLETED, FAILED}

\* The except branch ended a run between its second and third step.
C10_Witness ==
    \E w \in Created :
        /\ excepted[w] /\ pc[w] = "done"
        /\ Steps(w)[2].status \in Terminal
        /\ Steps(w)[3].status = PENDING

FixedNames(w) ==
    /\ Len(Steps(w)) = 4
    /\ \A k \in 1..4 : Steps(w)[k].name = StepNames[k]

\* C11: every started run eventually returns with a terminal pipeline status
\* and four steps under the fixed names in the fixed order, given that each
\* unit of work finishes or is cancelled by its timer: no run stays running
\* forever.
C11_EventuallyTerminal ==
    \A w \in WorkflowIds :
        (pc[w] # "idle") ~> (pc[w] = "done" /\ PipelineTerminal(w) /\ FixedNames(w))

\* A run that returned by its final status after a unit of work blocked past
\* its deadline.
C11_Witness ==
    \E w \in Created :
        /\ pc[w] = "done" /\ ~excepted[w] /\ PipelineTerminal(w) /\ FixedNames(w)
        /\ \E k \in 1..NumSteps : work[w][k].finished_at > DeadlineOf(w, k)

\* POST /workflow/execute has returned w's identifier.
StartReturned(w) == task[w].state # "none"

\* C12: from the moment start (POST /workflow/execute) has returned a
\* workflow id, status(id) finds the record: the id is in the registry, and
\* while the background run has not begun the status shown is pending or
\* running.
C12_StartedMeansRegistered ==
    \A w \in WorkflowIds :
        StartReturned(w) =>
            /\ w \in workflows
            /\ StatusResponse(w).status_code = 200
            /\ task[w].state = "added" => StatusResponse(w).status \in {PENDING, RUNNING}

\* The outcome a route gives for an internal error.
InternalError(r) == r.status_code = 500

\* C13: status(id) for an id that is not in the registry yields a not-found
\* outcome, which is not the outcome of an internal error.
C13_NotFoundDistinct ==
    (response.op = "status" /\ response.detail.text = WorkflowNotFound) =>
        ~InternalError(response)

\* A call of start or run_to_completion was rejected.
Rejected(r) == r.op \in {"execute", "execute_sync"} /\ r.status_code # 200

CleanupOps == {"cleanup_old_workflows", "cleanup"}

\* This step is a call of cleanup_old_workflows(max_age_hours).
CleanupStep(max_age_hours) ==
    /\ response'.op \in CleanupOps
    /\ response'.max_age_hours = max_age_hours
    /\ UNCHANGED <<now, wf, pc, task>>
    /\ response' # response \/ workflows' # workflows

AllMaxAgeHours == MaxAgeHours \cup {DefaultMaxAgeHours}

\* The records created more than max_age_hours before now.
OlderThan(max_age_hours) ==
    {w \in workflows : wf[w].created_at < now - max_age_hours}

\* C15: evict_older_than(max_age) removes every record whose created_at is
\* older than now - max_age, whatever its status, and leaves every newer
\* record, for every max_age and every time of day.
C15_EvictsOlder ==
    [][\A m \in AllMaxAgeHours :
          CleanupStep(m) => workflows' = workflows \ OlderThan(m)]_vars

\* C16: eviction is idempotent and safe: a call never fails, a call with no
\* matching entries leaves the registry unchanged, and after a call no entry
\* is left that the same call would remove.
C16_EvictionSafe ==
    /\ [](response.op \in CleanupOps => response.detail = NoDetail)
    /\ [][\A m \in AllMaxAgeHours :
              CleanupStep(m) =>
                  /\ OlderThan(m) = {} => workflows' = workflows
                  /\ \A w \in workflows' : ~(wf[w].created_at < now - m)]_vars

\* The registry held w's record and no longer does.
Evicted(w) == pc[w] # "idle" /\ task[w] = NoTask /\ w \notin workflows

\* C17: evicting the record of a run in flight removes only the
\* bookkeeping: the eviction step changes nothing of the run, the run goes on
\* to attempt its remaining steps and reaches a terminal status on its own
\* record, the record is never put back, and status(id) stays not-found.
C17_EvictionKeepsRun ==
    /\ [][\A w \in WorkflowIds :
              (w \in workflows /\ w \notin workflows') =>
                  UNCHANGED <<wf, pc, idx, work, step_timeout>>]_vars
    /\ [][\A w \in WorkflowIds : Evicted(w) => w \notin workflows']_vars
    /\ [](\A w \in WorkflowIds : Evicted(w) =>
              /\ get_workflow_status(w) = {}
              /\ StatusResponse(w).detail.text = WorkflowNotFound)
    /\ \A w \in WorkflowIds :
          Evicted(w) ~> (pc[w] = "done" /\ PipelineTerminal(w) /\ AllAttempted(w))

\* The record of a run that is waiting for its third unit of work has been
\* evicted.
C17_Witness ==
    \E w \in WorkflowIds :
        /\ Evicted(w)
        /\ wf[w].status = RUNNING
        /\ pc[w] = "wait" /\ idx[w] = 3

\* This step is execute_workflow_with_id creating w's record.
CreationStep(w) == pc[w] # "begin" /\ pc'[w] = "begin"

FourPending(workflow) ==
    /\ Len(workflow.steps) = 4
    /\ \A k \in 1..4 :
          /\ workflow.steps[k].name = StepNames[k]
          /\ workflow.steps[k].status = PENDING

\* C18: creating a workflow inserts a record with exactly four pending
\* steps in the fixed order under an identifier that the registry does not
\* hold and never held; every entry the registry already has stays, with
\* the same record, for any sequence of start, run_to_completion and evict
\* calls.
C18_CreateNeverOverwrites ==
    [][\A w \in WorkflowIds :
          CreationStep(w) =>
              /\ w \notin workflows
              /\ pc[w] = "idle"
              /\ w \in workflows'
              /\ wf'[w].workflow_id = w
              /\ wf'[w].status = PENDING
              /\ FourPending(wf'[w])
              /\ \A v \in workflows : v \in workflows' /\ wf'[v] = wf[v]]_vars

\* The background task of a second start has just created its record, next
\* to the record of an earlier run that has returned.
C18_Witness ==
    \E w \in workflows, v \in workflows :
        /\ w # v
        /\ pc[v] = "done" /\ wf[v].created_at < wf[w].created_at
        /\ pc[w] = "begin" /\ task[w].state = "started"
        /\ FourPending(wf[w])

(* ---- claims about the publish and polish steps (PipelineSpec) ---- *)

\* The calls of client.create_tweet that run w made and the API refused as
\* over the rate limit.
RateLimited(w) ==
    {i \in 1..Len(posted) :
        posted[i].workflow_id = w /\ posted[i].outcome = "TooManyRequests"}

StepEnded(w, k) == Steps(w)[k].status \notin {PENDING, RUNNING}

RewriteFailed(t) == rewrite[t] \in RewriteFailures

\* The texts the destination account accepted for row t.
PublishedTexts(t) ==
    {posted[i].text : i \in {j \in 1..Len(posted) :
                                posted[j].tweet_id = t /\ posted[j].outcome = "created"}}

\* C20: when the rewrite of an item fails, the polish step stores the item's
\* original text as its rewritten text and still ends completed, and the
\* text published for that item is its original text.
C20_RewriteFailureKeepsOriginal ==
    \A t \in TweetIds :
        RewriteFailed(t) =>
            /\ tweets[t].polished_text = OriginalText(t)
            /\ \A w \in Created : StepEnded(w, 3) => Steps(w)[3].status = COMPLETED
            /\ PublishedTexts(t) \subseteq {OriginalText(t)}

\* The publish step of run w runs in this step.
PublishRuns(w) == work[w][NumSteps] = NoWork /\ work'[w][NumSteps] # NoWork

\* The publish step of run w chooses row t in this step.
Selects(w, t) == PublishRuns(w) /\ selected'[w] = t /\ selected[w] # t

\* The target's rows whose status is rewritten or downloaded.
EligibleByStatus(username) ==
    {t \in get_tweets_by_username(username, "") :
        tweets[t].status \in {"polished", "downloaded"}}

\* No row of the set is newer than t.
MostRecent(t, rows) == t \in rows /\ \A u \in rows : CreatedAt(u) <= CreatedAt(t)

\* The calls of client.create_tweet by run w that created a tweet.
Published(w) ==
    {i \in 1..Len(posted) : posted[i].workflow_id = w /\ posted[i].outcome = "created"}

\* What a publish step does with the rows it may choose from: it chooses a
\* most recent one if there is any and auto-posting is on, sends exactly
\* that row, marks it and no other row published if the tweet was created,
\* and leaves the table alone otherwise.
PublishesLatest(w, rows) ==
    /\ Cardinality(Published(w)) <= 1
    /\ PublishRuns(w) =>
        IF rows = {} \/ ~config.workflow_enable_auto_posting
        THEN selected'[w] = selected[w] /\ posted' = posted /\ tweets' = tweets
        ELSE \E t \in rows :
                /\ Selects(w, t)
                /\ MostRecent(t, rows)
                /\ tweets[t].status # "published"
                /\ Len(posted') = Len(posted) + 1
                /\ posted'[Len(posted')].tweet_id = t
                /\ posted'[Len(posted')].workflow_id = w
                /\ IF posted'[Len(posted')].outcome = "created"
                   THEN tweets' = [tweets EXCEPT ![t].status = "published",
                                                 ![t].posted_at = now']
                   ELSE tweets' = tweets

\* C21 as stated: the publish step chooses the most recently created of the
\* target's rows that are rewritten or downloaded and not yet published,
\* publishes exactly that row and marks it published; a run publishes at
\* most one row and never a published one.
C21_PublishesLatestByStatus ==
    [][\A w \in WorkflowIds : PublishesLatest(w, EligibleByStatus(scrape_username[w]))]_vars

\* C21 amended: the same of the target's rows that have a rewritten text and
\* whose status is rewritten or downloaded; a downloaded row without a
\* rewritten text is never chosen.
C21_PublishesLatestPolished ==
    [][\A w \in WorkflowIds : PublishesLatest(w, polished_tweets(scrape_username[w]))]_vars

\* A returned run that published the newer of two rewritten rows.
C21_Witness ==
    \E w \in Created, t \in TweetIds, u \in TweetIds :
        /\ pc[w] = "done"
        /\ selected[w] = t
        /\ Published(w) # {}
        /\ tweets[t].status = "published"
        /\ tweets[u].status = "polished"
        /\ CreatedAt(u) < CreatedAt(t)

(* ---------- claims about two runs for one target (RaceSpec) ---------- *)

\* Run w has chosen a row and has not called client.create_tweet yet.
Publishing(w) == pc[w] = "publish"

\* Two runs created a tweet from the same row.
DoublePublish ==
    \E i \in 1..Len(posted), j \in 1..Len(posted) :
        /\ posted[i].workflow_id # posted[j].workflow_id
        /\ posted[i].tweet_id = posted[j].tweet_id
        /\ posted[i].outcome = "created"
        /\ posted[j].outcome = "created"

Invoked(w, k) == work[w][k] # NoWork

\* In this step nothing is invoked that was invoked before, and no step
\* record that was started is started again.
InvokedOnce(w, k) ==
    /\ work'[w][k] # work[w][k] => ~Invoked(w, k)
    /\ (Steps(w)[k].status # RUNNING /\ Steps(w)'[k].status = RUNNING) =>
            Steps(w)[k].status = PENDING /\ ~Invoked(w, k)

\* C23: each step's unit of work is invoked exactly once per run: a run that
\* returned by its final status invoked all four, and no outcome of a step
\* (failed, timeout, rate-limited) makes the step executor or the controller
\* invoke a unit of work a second time.
C23_InvokedExactlyOnce ==
    /\ [](\A w \in Created :
            (pc[w] = "done" /\ ~excepted[w]) => \A k \in 1..NumSteps : Invoked(w, k))
    /\ [][\A w \in WorkflowIds : \A k \in 1..NumSteps : InvokedOnce(w, k)]_vars

\* A returned run with a failed and a timed-out step, each invoked once.
C23_Witness ==
    \E w \in Created :
        /\ pc[w] = "done" /\ ~excepted[w]
        /\ Steps(w)[1].status = FAILED
        /\ Steps(w)[NumSteps].status = TIMEOUT
        /\ \A k \in 1..NumSteps : Invoked(w, k)

(* ------ claims about steps that find nothing to do (PipelineSpec) ------ *)

\* The rows step k of run w acts on.
EligibleFor(w, k) ==
    CASE k = 2 -> get_tweets_by_username(scrape_username[w], "downloaded")
      [] k = 3 -> get_tweets_by_username(scrape_username[w], "processed")
      [] k = NumSteps -> polished_tweets(scrape_username[w])

\* The key of the count step k returns.
CountKey(k) ==
    CASE k = 2 -> "processed_count"
      [] k = 3 -> "polished_count"
      [] k = NumSteps -> "posted_count"

NoOp(k) == [key |-> CountKey(k), count |-> 0]

\* Step k of run w runs in this step and finds nothing to act on: it changes
\* no row, calls nothing, and returns a count of 0.
NoOpStep(w, k) ==
    (~Invoked(w, k) /\ work'[w][k] # work[w][k] /\ EligibleFor(w, k) = {}) =>
        /\ tweets' = tweets
        /\ posted' = posted
        /\ work'[w][k].state = "returned"
        /\ work'[w][k].value = NoOp(k)

\* Steps 2 to 4 of run w found nothing to act on.
NothingToDo(w) ==
    \A k \in 2..NumSteps : work[w][k].state = "returned" /\ work[w][k].value = NoOp(k)

\* C24: when the earlier steps produced nothing, each later step finds
\* nothing eligible, changes no row and publishes nothing, and ends completed
\* with a no-op result; the run is then failed because of the download step
\* only.
C24_NothingEligibleIsNoOp ==
    /\ [][\A w \in WorkflowIds : \A k \in 2..NumSteps : NoOpStep(w, k)]_vars
    /\ [](\A w \in Created :
            (pc[w] = "done" /\ NothingToDo(w)) =>
                /\ \A k \in 2..NumSteps :
                        /\ Steps(w)[k].status = COMPLETED
                        /\ Steps(w)[k].result = NoOp(k)
                /\ Steps(w)[1].status = FAILED
                /\ wf[w].status = FAILED
                /\ \A i \in 1..Len(posted) : posted[i].workflow_id # w)

\* A returned run for a target that has no rows: download failed, the other
\* three steps completed with counts of 0.
C24_Witness ==
    \E w \in Created :
        /\ pc[w] = "done"
        /\ \A t \in TweetIds : tweets[t] = NoTweet
        /\ NothingToDo(w)
        /\ Steps(w)[1].status = FAILED
        /\ \A k \in 2..NumSteps : Steps(w)[k].status = COMPLETED
        /\ wf[w].status = FAILED
        /\ config.workflow_enable_auto_posting

(* --------- claims about the download step and the fetch --------------- *)

\* The download step of run w ended, and not by its timeout.
DownloadEnded(w) == StepEnded(w, 1) /\ Steps(w)[1].status # TIMEOUT

\* C25: when the fetch collaborator returns within the budget, the download
\* step ends completed, having persisted the fetched items that were not
\* known; no two rows share a tweet_id (the table is keyed by it).
C25_DownloadCompletes ==
    \A w \in Created :
        DownloadEnded(w) =>
            /\ Steps(w)[1].status = COMPLETED
            /\ work[w][1].state = "returned"

\* fetch_user_tweets has been called with a count of 1..100.
Fetched == fetch.count \in 1..100

DurationOk(step) ==
    /\ step.duration # None <=> (step.start_time # None /\ step.end_time # None)
    /\ (step.start_time # None /\ step.end_time # None) =>
            /\ step.duration = step.end_time - step.start_time
            /\ step.duration >= 0

\* C27: a step record's duration is present if and only if both start_time
\* and end_time are present, equals end_time - start_time, and is never
\* negative.
C27_DurationPresentAndNonNegative ==
    \A w \in WorkflowIds : \A k \in 1..NumSteps : DurationOk(Steps(w)[k])

\* A run with a step that took time, a step that is running (started, not
\* ended, no duration) and a step that is pending.
C27_Witness ==
    \E w \in Created :
        /\ Steps(w)[1].duration > 0
        /\ Steps(w)[2].status = RUNNING
        /\ Steps(w)[2].start_time # None /\ Steps(w)[2].end_time = None
        /\ Steps(w)[3].status = PENDING /\ Steps(w)[3].start_time = None

\* GET /workflow/status/{workflow_id} answered with the record of w.
StatusReported(w) ==
    response.op = "status" /\ response.status_code = 200 /\ response.workflow_id = w

\* C28: the record the registry holds for a started workflow has its summary
\* populated at creation with the target account and the requested count,
\* and the status route reports them as long as the record is there.
C28_SummaryPopulated ==
    \A w \in workflows :
        /\ wf[w].summary = Summary(scrape_username[w], DefaultCount)
        /\ StatusReported(w) => response.summary = Summary(scrape_username[w], DefaultCount)

\* The background task of w begins: the request's timeout reaches the executor.
RunBegins(w) == task[w].state = "added" /\ task'[w].state = "started"

\* The step timeout of a run: the caller's value, else the setting.
StepBudget(requested) ==
    IF requested # 0 THEN requested ELSE config.workflow_step_timeout

\* The budget step k of w is to run under.
Budget(w, k) ==
    IF k \in {1, 2, 3} THEN step_timeout[w] ELSE config.workflow_posting_timeout

\* wait_for of step k of w returns.
WaitReturns(w, k) == pc[w] = "wait" /\ idx[w] = k /\ pc'[w] = "resume"

\* C29: download, classify and polish each run under the step timeout (the
\* caller's value, else the configured default) and publish under the
\* separate publish timeout, whatever step timeout the caller gave: a step is
\* cancelled before it starts exactly when its own budget is not positive,
\* and a timed-out step names its own budget.
C29_StepAndPublishBudgets ==
    [][\A w \in WorkflowIds :
          /\ RunBegins(w) => step_timeout'[w] = StepBudget(task[w].timeout)
          /\ \A k \in 1..NumSteps :
                /\ WaitReturns(w, k) =>
                      (work'[w][k].state = "cancelled" <=> Budget(w, k) <= 0)
                /\ (w \in workflows' /\ wf'[w].steps[k].status = TIMEOUT) =>
                      wf'[w].steps[k].error = TimeoutMessage(Budget(w, k))]_vars

\* A run whose caller gave a step timeout over a default of 0: the first
\* three steps ran, and publish timed out under the publish timeout of 0.
C29_Witness ==
    \E w \in Created :
        /\ step_timeout[w] = 1 /\ config.workflow_step_timeout = 0
        /\ config.workflow_posting_timeout = 0
        /\ \A k \in {1, 2, 3} : Steps(w)[k].status \in {COMPLETED, FAILED}
        /\ Steps(w)[NumSteps].status = TIMEOUT
        /\ Steps(w)[NumSteps].error = TimeoutMessage(0)

\* The record of w has been created and its pipeline status is terminal.
TerminalRecord(w) == pc[w] # "idle" /\ wf[w].status \in {COMPLETED, FAILED}

\* This step is a call of cleanup_old_workflows, direct or by the route.
EvictionStep == response'.op \in {"cleanup", "cleanup_old_workflows"}

\* C30: once a record's pipeline status is terminal, no field of the record
\* or of its step records is written again, by its own run or by any other
\* task; the registry drops it only in a call of eviction.
C30_TerminalRecordImmutable ==
    [][\A w \in WorkflowIds :
          TerminalRecord(w) =>
              /\ wf'[w] = wf[w]
              /\ (w \in workflows /\ w \notin workflows') => EvictionStep]_vars

\* The registry still holds the record of a run that ended, while a second
\* run, created after the first ended, has finished its four steps.
C30_Witness ==
    \E v \in workflows, w \in Created :
        /\ w # v
        /\ TerminalRecord(v) /\ pc[v] = "done"
        /\ wf[v].completed_at < wf[w].created_at
        /\ TerminalRecord(w) /\ AllAttempted(w)

\* Step k of w has been marked timeout.
TimedOut(w, k) == Steps(w)[k].status = TIMEOUT

\* The unit of work of step k of w has run, or is to run.
NotStopped(w, k) == work[w][k].state # "cancelled"

\* This step changes the persistence layer.
Persists == tweets' # tweets \/ posted' # posted

\* This step is the unit of work of the step w is at, running to its end
\* inside a wait_for that has not timed out.
UnitOfRunningStep(w) ==
    /\ pc[w] = "wait" /\ pc'[w] = "resume"
    /\ Steps(w)[idx[w]].status = RUNNING
    /\ TimeoutOf(w, idx[w]) > 0
    /\ work'[w][idx[w]].state \in {"returned", "raised"}

RunningSteps(w) == {k \in 1..NumSteps : Steps(w)[k].status = RUNNING}

\* C32: a workflow record has at most one running step, every step before
\* the running step is terminal and every step after it is pending; so the
\* current_step the status endpoint reports is the one running step, and is
\* absent exactly when no step is running.
C32_OneRunningStep ==
    \A w \in Created :
        /\ Cardinality(RunningSteps(w)) <= 1
        /\ \A k \in RunningSteps(w) :
              /\ \A j \in 1..(k - 1) : Steps(w)[j].status \in Terminal
              /\ \A j \in (k + 1)..NumSteps : Steps(w)[j].status = PENDING
        /\ w \in workflows =>
              /\ StatusResponse(w).current_step = "None" <=> RunningSteps(w) = {}
              /\ \A k \in RunningSteps(w) : StatusResponse(w).current_step = StepNames[k]

\* The status endpoint has answered with the third step as current_step,
\* while that step is running.
C32_Witness ==
    \E w \in workflows :
        /\ RunningSteps(w) = {3}
        /\ response.op = "status" /\ response.status_code = 200
        /\ response.workflow_id = w
        /\ response.current_step = StepNames[3]

\* p <= q, for two progress values.
AtMost(p, q) == p.completed_steps * q.total_steps <= q.completed_steps * p.total_steps

\* 0 <= p <= 1
InUnitInterval(p) ==
    /\ p.total_steps > 0
    /\ 0 <= p.completed_steps
    /\ p.completed_steps <= p.total_steps

\* The status endpoint has answered a poll of w with its progress.
Polled(w) == response.op = "status" /\ response.status_code = 200 /\ response.workflow_id = w

\* C33: the progress the status endpoint reports (completed steps over total
\* steps) is within [0, 1] and never decreases from one poll of a workflow
\* to a later poll of the same workflow.
C33_ProgressMonotone ==
    [][\A w \in WorkflowIds :
          /\ Polled(w)' => InUnitInterval(response'.progress)
          /\ (w \in workflows /\ w \in workflows') =>
                AtMost(StatusResponse(w).progress, StatusResponse(w)'.progress)
          /\ (Polled(w) /\ Polled(w)') => AtMost(response.progress, response'.progress)]_vars

\* A poll was answered with one step of four completed, and a second step
\* has completed since.
C33_Witness ==
    \E w \in workflows :
        /\ Polled(w)
        /\ response.progress = Progress(1, NumSteps)
        /\ StatusResponse(w).progress = Progress(2, NumSteps)

\* downloaded -> processed -> polished -> published, as positions.
Stage(status) ==
    CASE status = "absent"     -> 0
      [] status = "downloaded" -> 1
      [] status = "processed"  -> 2
      [] status = "polished"   -> 3
      [] status = "published"  -> 4

\* The rows this step changes.
Touched == {t \in TweetIds : tweets'[t] # tweets[t]}

\* The unit of work of step k of run w runs in this step.
UnitStep(w, k) == pc[w] = "wait" /\ idx[w] = k /\ pc'[w] = "resume"

\* C34: under the pipeline steps a row's status only moves forward along
\* downloaded -> processed -> polished -> published: classify only turns
\* the target's downloaded rows into processed, polish only turns the
\* target's processed rows without rewritten text into polished, publish
\* only turns one eligible row into published; no step moves a row
\* backward, changes a published row, or touches a row of another account.
C34_StatusMovesForward ==
    [][/\ \A t \in Touched :
             /\ Stage(tweets[t].status) < Stage(tweets'[t].status)
             /\ tweets[t].status # "published"
             /\ \E w \in Created : Username(t) = scrape_username[w]
             /\ tweets'[t].created_at = tweets[t].created_at
       /\ \A w \in Created :
             /\ UnitStep(w, 1) => Touched = {}
             /\ UnitStep(w, 2) =>
                   \A t \in Touched :
                      /\ tweets[t].status = "downloaded"
                      /\ tweets'[t] = [tweets[t] EXCEPT !.status = "processed"]
             /\ UnitStep(w, 3) =>
                   \A t \in Touched :
                      /\ tweets[t].status = "processed" /\ ~Truthy(tweets[t].polished_text)
                      /\ tweets'[t].status = "polished" /\ Truthy(tweets'[t].polished_text)
                      /\ tweets'[t].posted_at = tweets[t].posted_at
             /\ UnitStep(w, NumSteps) =>
                   /\ Cardinality(Touched) <= 1
                   /\ \A t \in Touched :
                         /\ t \in polished_tweets(scrape_username[w])
                         /\ tweets'[t].status = "published"
                         /\ tweets'[t].polished_text = tweets[t].polished_text]_vars

\* A returned run that classified, rewrote and published rows of the
\* target, next to a downloaded row of another account that is as it was.
C34_Witness ==
    \E w \in Created :
        /\ pc[w] = "done"
        /\ Steps(w)[2].status = COMPLETED /\ Steps(w)[2].result.count > 0
        /\ Steps(w)[3].status = COMPLETED /\ Steps(w)[3].result.count > 0
        /\ \E t \in TweetIds : Username(t) = Target /\ tweets[t].status = "published"
        /\ \E t \in OtherTweetIds : tweets[t] = DownloadedTweet

\* What create_tweet did in this step, for the row it was given.
Attempt == posted'[Len(posted')]

\* The publish collaborator is called in this step.
Publishes == Len(posted') = Len(posted) + 1

\* C35: the publish step marks a row published only after the publish
\* collaborator has returned a published id; when publishing fails
\* (rate-limited, unauthorized, forbidden, malformed content, no response
\* data) the row's status and posted_at are left as they were, so the row
\* stays eligible for a later run.
C35_PublishedOnlyAfterId ==
    [][/\ \A t \in TweetIds :
             (tweets[t].status # "published" /\ tweets'[t].status = "published") =>
                 /\ Publishes
                 /\ Attempt.tweet_id = t /\ Attempt.outcome = "created"
       /\ (Publishes /\ Attempt.outcome # "created") =>
             /\ tweets' = tweets
             /\ \E t \in TweetIds :
                   t = Attempt.tweet_id /\ t \in polished_tweets(Username(t))'
             /\ \A w \in Created : UnitStep(w, NumSteps) => work'[w][NumSteps].state = "raised"
       /\ (Publishes /\ Attempt.outcome = "created") =>
             /\ tweets'[Attempt.tweet_id].status = "published"
             /\ tweets'[Attempt.tweet_id].posted_at = now']_vars

\* A returned run whose publish step failed for want of response data: the
\* row it chose is still rewritten, unposted and eligible.
C35_Witness ==
    \E w \in Created, t \in TweetIds :
        /\ pc[w] = "done"
        /\ Steps(w)[NumSteps].status = FAILED
        /\ Len(posted) = 1 /\ posted[1].tweet_id = t /\ posted[1].outcome = "NoData"
        /\ tweets[t].status = "polished" /\ tweets[t].posted_at = None
        /\ t \in polished_tweets(Target)

\* {"posted_count": 0, ...}
ZeroPosted == Count("posted_count", 0)

\* C36: with auto-posting disabled in the configuration, the publish step
\* ends completed with a zero-posted no-op result, the publish collaborator
\* is never called and the step changes no row's status, in every run.
C36_AutoPostingDisabledIsNoOp ==
    [][~config.workflow_enable_auto_posting =>
          /\ posted' = <<>>
          /\ \A t \in TweetIds : tweets'[t].status # "published"
          /\ \A w \in Created :
                /\ UnitStep(w, NumSteps) =>
                      /\ tweets' = tweets
                      /\ work'[w][NumSteps].state = "returned"
                      /\ work'[w][NumSteps].value = ZeroPosted
                /\ StepEnded(w, NumSteps)' =>
                      /\ wf'[w].steps[NumSteps].status = COMPLETED
                      /\ wf'[w].steps[NumSteps].result = ZeroPosted]_vars

\* Auto-posting is disabled and a returned run has left a rewritten row
\* unposted, its publish step completed with nothing posted.
C36_Witness ==
    \E w \in Created :
        /\ ~config.workflow_enable_auto_posting
        /\ pc[w] = "done"
        /\ Steps(w)[NumSteps].status = COMPLETED
        /\ Steps(w)[NumSteps].result = ZeroPosted
        /\ polished_tweets(Target) # {}
        /\ posted = <<>>

\* run_workflow has returned: by a return statement of its own, or with
\* the workflow that execute_workflow handed back.
RunnerReturned ==
    \/ runner.state = "exited" /\ runner.called
    \/ runner.state = "awaiting" /\ pc[runner.workflow_id] = "done"

\* What run_workflow returned.
RunnerValue ==
    IF runner.state = "awaiting" THEN wf[runner.workflow_id].status = COMPLETED
    ELSE runner.value

\* A pipeline run was executed for the username run_workflow resolved, and
\* ended with this status.
RunnerExecuted(status) ==
    /\ runner.state = "awaiting"
    /\ pc[runner.workflow_id] = "done"
    /\ scrape_username[runner.workflow_id] = runner.target_username
    /\ wf[runner.workflow_id].status = status

====
